---- MODULE Spec2Model ----
(***************************************************************************)
(* The release pipeline of itty-packager: the CLI entry point (bin/itty.js *)
(* main), releaseCommand with its rollback, the two raw-terminal sessions  *)
(* getCommitMessage and promptOtp, and versionBump.  The older             *)
(* publishCommand, which orders its stages differently, has a              *)
(* specification of its own (SpecPublish).  SpecBump applies versionBump   *)
(* to a range of versions and kinds; SpecMalformed runs the pipeline on a  *)
(* package.json whose version is malformed; SpecExports applies            *)
(* transformPackageExports to a range of exports tables; SpecStage runs    *)
(* the staging steps on a project directory, twice; SpecRollback is the    *)
(* pipeline with a rollback whose own steps can fail; SpecDest runs the    *)
(* staging steps on one tree of files for every --src and --dest;          *)
(* SpecMessage finalizes a typed commit message; SpecRun is one child      *)
(* process of runCommand or runNpmScript; SpecPrepare is prepareCommand;   *)
(* SpecNoVersion is a dry run with --no-version on its command line.       *)
(*                                                                         *)
(* Text is a sequence of one-character strings, so that split, includes,   *)
(* trim and replace are computed as the JavaScript computes them.  A       *)
(* longer string inside a text is a fixed piece of a message that holds    *)
(* none of the characters the code searches for.                           *)
(***************************************************************************)
EXTENDS Integers, Sequences, FiniteSets, TLC

\* ------------------------------------------------------------------ bounds
\* longest text the user types into the commit-message session
MaxBuf == 9
\* longest one-time password buffer
MaxCode == 2
\* Escape timers that may be pending at once
MaxTimers == 1

\* ------------------------------------------------------------ text helpers
Digits == <<"0", "1", "2", "3", "4", "5", "6", "7", "8", "9">>

IsDigit(c) == \E i \in 1..10 : Digits[i] = c

DigitVal(c) == (CHOOSE i \in 1..10 : Digits[i] = c) - 1

AllDigits(s) == \A i \in 1..Len(s) : IsDigit(s[i])

RECURSIVE DecVal(_)
DecVal(s) == IF s = <<>> THEN 0
             ELSE 10 * DecVal(SubSeq(s, 1, Len(s) - 1)) + DigitVal(s[Len(s)])

RECURSIVE DecStr(_)
DecStr(n) == IF n < 10 THEN <<Digits[n + 1]>>
             ELSE DecStr(n \div 10) \o <<Digits[(n % 10) + 1]>>

\* String.prototype.includes
Includes(s, needle) ==
  \E i \in 1..(Len(s) - Len(needle) + 1) : SubSeq(s, i, i + Len(needle) - 1) = needle

\* index of the first occurrence of sep in s, 0 when there is none
FirstAt(s, sep) ==
  IF Includes(s, sep)
  THEN CHOOSE i \in 1..(Len(s) - Len(sep) + 1) :
         /\ SubSeq(s, i, i + Len(sep) - 1) = sep
         /\ \A j \in 1..(i - 1) : SubSeq(s, j, j + Len(sep) - 1) # sep
  ELSE 0

\* String.prototype.split with a non-empty separator
RECURSIVE Split(_, _)
Split(s, sep) ==
  LET i == FirstAt(s, sep) IN
  IF i = 0 THEN <<s>>
  ELSE <<SubSeq(s, 1, i - 1)>> \o Split(SubSeq(s, i + Len(sep), Len(s)), sep)

RECURSIVE TrimStart(_)
TrimStart(s) == IF s # <<>> /\ s[1] = " " THEN TrimStart(Tail(s)) ELSE s

RECURSIVE TrimEnd(_)
TrimEnd(s) == IF s # <<>> /\ s[Len(s)] = " " THEN TrimEnd(SubSeq(s, 1, Len(s) - 1)) ELSE s

\* String.prototype.trim
Trim(s) == TrimEnd(TrimStart(s))

\* customMessage.replace(/"/g, '\\"')
RECURSIVE EscapeQuotes(_)
EscapeQuotes(s) ==
  IF s = <<>> THEN <<>>
  ELSE (IF s[1] = "\"" THEN <<"\\", "\"">> ELSE <<s[1]>>) \o EscapeQuotes(Tail(s))

\* ------------------------------------------------------- JavaScript numbers
Num(n) == [t |-> "num", v |-> n]
NaN == [t |-> "nan", v |-> 0]
Undefined == [t |-> "undef", v |-> 0]

\* Number(part) for a part made of digits, letters and dashes
ToNumber(s) == IF s = <<>> THEN Num(0)
               ELSE IF AllDigits(s) THEN Num(DecVal(s))
               ELSE NaN

\* x + 1
PlusOne(x) == IF x.t = "num" THEN Num(x.v + 1) ELSE NaN

\* `${x}`
Show(x) == CASE x.t = "num" -> DecStr(x.v)
             [] x.t = "nan" -> <<"N", "a", "N">>
             [] OTHER -> <<"u", "n", "d", "e", "f", "i", "n", "e", "d">>

\* length of the longest prefix of s made of digits
RECURSIVE DigitPrefixLen(_)
DigitPrefixLen(s) == IF s # <<>> /\ IsDigit(s[1]) THEN 1 + DigitPrefixLen(Tail(s)) ELSE 0

\* parseInt(s) || 0, s being a text
ParseIntOrZero(s) == LET k == DigitPrefixLen(s) IN
                     IF k = 0 THEN 0 ELSE DecVal(SubSeq(s, 1, k))

\* the characters of a release kind
Chars(kind) ==
  CASE kind = "major" -> <<"m", "a", "j", "o", "r">>
    [] kind = "minor" -> <<"m", "i", "n", "o", "r">>
    [] kind = "patch" -> <<"p", "a", "t", "c", "h">>
    [] kind = "beta" -> <<"b", "e", "t", "a">>
    [] kind = "rc" -> <<"r", "c">>
    [] OTHER -> <<kind>>

\* --------------------------------------------------------------- versionBump
At(parts, i) == IF i <= Len(parts) THEN parts[i] ELSE Undefined

\* a bump that leaves the lower components as they are
versionBumpNoReset(currentVersion, type) ==
  LET raw == Split(currentVersion, <<".">>)
      parts == [i \in 1..Len(raw) |-> ToNumber(raw[i])]
  IN CASE type = "major" -> Show(PlusOne(At(parts, 1))) \o <<".">> \o Show(At(parts, 2))
                              \o <<".">> \o Show(At(parts, 3))
       [] type = "minor" -> Show(At(parts, 1)) \o <<".">> \o Show(PlusOne(At(parts, 2)))
                              \o <<".">> \o Show(At(parts, 3))
       [] OTHER -> Show(At(parts, 1)) \o <<".">> \o Show(At(parts, 2))
                     \o <<".">> \o Show(PlusOne(At(parts, 3)))

versionBump(currentVersion, type) ==
  LET raw == Split(currentVersion, <<".">>)
      parts == [i \in 1..Len(raw) |-> ToNumber(raw[i])]
      tag == <<"-">> \o Chars(type)
  IN CASE type = "major" -> Show(PlusOne(At(parts, 1))) \o <<".", "0", ".", "0">>
       [] type = "minor" -> Show(At(parts, 1)) \o <<".">> \o Show(PlusOne(At(parts, 2)))
                              \o <<".", "0">>
       [] type = "patch" -> Show(At(parts, 1)) \o <<".">> \o Show(At(parts, 2))
                              \o <<".">> \o Show(PlusOne(At(parts, 3)))
       [] OTHER ->
            IF Includes(currentVersion, tag)
            THEN LET sp == Split(currentVersion, tag \o <<".">>)
                     prereleaseNum == IF Len(sp) >= 2 THEN ParseIntOrZero(sp[2]) ELSE 0
                 IN sp[1] \o tag \o <<".">> \o DecStr(prereleaseNum + 1)
            ELSE currentVersion \o tag \o <<".", "0">>

\* ------------------------------------------------------------------- inputs
V123 == <<"1", ".", "2", ".", "3">>
V123beta0 == <<"1", ".", "2", ".", "3", "-", "b", "e", "t", "a", ".", "0">>

\* versions the persisted manifest starts with
Versions == {V123, V123beta0}

\* the release-kind flags of an invocation: --major --minor --patch --type=<tag>
KindFlags ==
  { [major |-> FALSE, minor |-> FALSE, patch |-> FALSE, type |-> ""],
    [major |-> TRUE, minor |-> FALSE, patch |-> FALSE, type |-> ""],
    [major |-> FALSE, minor |-> TRUE, patch |-> FALSE, type |-> ""],
    [major |-> FALSE, minor |-> FALSE, patch |-> TRUE, type |-> ""],
    [major |-> FALSE, minor |-> FALSE, patch |-> FALSE, type |-> "beta"],
    [major |-> TRUE, minor |-> FALSE, patch |-> FALSE, type |-> "beta"] }

NoFlags == [dryRun |-> FALSE, noCleanup |-> FALSE, tag |-> FALSE, push |-> FALSE,
            noGit |-> FALSE, prepare |-> FALSE, silent |-> FALSE, otp |-> FALSE]

FlagSets == [dryRun : BOOLEAN, noCleanup : BOOLEAN, tag : BOOLEAN, push : BOOLEAN,
             noGit : BOOLEAN, prepare : BOOLEAN, silent : BOOLEAN, otp : BOOLEAN]

\* --public is drawn for publishCommand only; noVersion says that --no-version,
\* an option no command declares, is on the command line
Invocation(sub, version, help, kind, flags) ==
  [sub |-> sub, version |-> version, help |-> help, kind |-> kind, flags |-> flags,
   public |-> FALSE, noVersion |-> FALSE]

NoKind == [major |-> FALSE, minor |-> FALSE, patch |-> FALSE, type |-> ""]

\* command lines: `itty`, `itty --version`, `itty bogus [--help]`,
\* `itty build|lint|prepare`, `itty release --help`, `itty release <flags>`
Invocations ==
  { Invocation(sub, FALSE, help, NoKind, NoFlags) : sub \in {"none", "unknown"}, help \in BOOLEAN }
    \cup { Invocation(sub, TRUE, FALSE, NoKind, NoFlags) : sub \in {"none", "release"} }
    \cup { Invocation("other", FALSE, FALSE, NoKind, NoFlags),
           Invocation("release", FALSE, TRUE, NoKind, NoFlags) }
    \cup { Invocation("release", FALSE, FALSE, k, f) : k \in KindFlags, f \in FlagSets }

\* a JSON value of the exports table: a string ("str", its text in v), an
\* object ("obj", its entries <<key, value>> in order in kv), an array ("arr",
\* its items under their indices in kv), null, or no value at all ("undef")
Json(t, v, kv) == [t |-> t, v |-> v, kv |-> kv]
NoExports == Json("undef", <<>>, <<>>)

\* the exports table as written by hand: { ".": "./dist/index.mjs" }
DeclaredExports ==
  Json("obj", <<>>,
       << <<<<".">>, Json("str", <<".", "/", "d", "i", "s", "t", "/", "index.mjs">>, <<>>)>> >>)

\* the exports table build() writes for a single file:
\* { ".": { import: "./dist/index.mjs", types: "./dist/index.d.ts" } }
BuiltExports ==
  Json("obj", <<>>,
       << <<<<".">>,
            Json("obj", <<>>,
                 << <<<<"import">>,
                      Json("str", <<".", "/", "d", "i", "s", "t", "/", "index.mjs">>, <<>>)>>,
                    <<<<"types">>,
                      Json("str", <<".", "/", "d", "i", "s", "t", "/", "index.d.ts">>, <<>>)>>
                 >>)>> >>)

\* package.json: the version and the exports table
Manifest(version, exports) == [version |-> version, exports |-> exports]
NoPkg == Manifest(<<>>, NoExports)

Cancelled == <<"c", "a", "n", "c", "e", "l", "l", "e", "d">>

\* a line of blanks, and a quote between blanks
Blank == <<" ">>
Quoted == <<" ", "\"", " ">>

\* what the user types at the commit-message prompt, key by key
Texts == { <<"h", "i">>, Cancelled, Blank, Quoted }

IsPrefix(p, s) == Len(p) <= Len(s) /\ SubSeq(s, 1, Len(p)) = p

Typable(buf) == Len(buf) <= MaxBuf /\ \E t \in Texts : IsPrefix(buf, t)

\* chunks the terminal delivers at the one-time-password prompt
OtpChunks == { <<"1">>, <<"a">>, <<"1", "a">>, <<"ESC">> }

\* UTF-16 code unit of the characters the password prompt compares
CodeUnit(c) == CASE c = "ESC" -> 27
                 [] IsDigit(c) -> 48 + DigitVal(c)
                 [] OTHER -> 97

\* a < b for JavaScript strings
RECURSIVE StrLess(_, _)
StrLess(a, b) ==
  IF b = <<>> THEN FALSE
  ELSE IF a = <<>> THEN TRUE
  ELSE IF CodeUnit(a[1]) # CodeUnit(b[1]) THEN CodeUnit(a[1]) < CodeUnit(b[1])
  ELSE StrLess(Tail(a), Tail(b))

\* --------------------------------------------------- transformPackageExports
\* exportPath.startsWith(`./${srcDir}/`), String.prototype.replace with a string
\* pattern: the first occurrence only
transformPath(exportPath, srcDir) ==
  LET prefix == <<".", "/">> \o srcDir \o <<"/">>
      s == exportPath.v
      i == FirstAt(s, prefix)
  IN IF exportPath.t = "str" /\ IsPrefix(prefix, s)
     THEN Json("str", SubSeq(s, 1, i - 1) \o <<".", "/">> \o SubSeq(s, i + Len(prefix), Len(s)),
               <<>>)
     ELSE exportPath

\* typeof value === 'object' holds of objects, arrays and null; the result is
\* built as an object whatever came in
RECURSIVE transformExportObj(_, _)
transformExportObj(exportObj, srcDir) ==
  IF exportObj.t = "str" THEN transformPath(exportObj, srcDir)
  ELSE IF exportObj.t \in {"obj", "arr"}
  THEN Json("obj", <<>>,
            [i \in 1..Len(exportObj.kv) |->
               LET key == exportObj.kv[i][1]
                   value == exportObj.kv[i][2]
               IN <<key, IF value.t = "str" THEN transformPath(value, srcDir)
                         ELSE IF value.t \in {"obj", "arr", "null"}
                         THEN transformExportObj(value, srcDir)
                         ELSE value>>])
  ELSE exportObj

\* if (pkg.exports): undefined, null and "" are falsy; Object.entries of a
\* string is its characters under their indices
transformPackageExports(p, srcDir) ==
  LET exports == p.exports
      entries == IF exports.t = "str"
                 THEN [i \in 1..Len(exports.v) |->
                         <<DecStr(i - 1), Json("str", <<exports.v[i]>>, <<>>)>>]
                 ELSE exports.kv
  IN IF exports.t \in {"obj", "arr"} \/ (exports.t = "str" /\ exports.v # <<>>)
     THEN [p EXCEPT !.exports =
             Json("obj", <<>>,
                  [i \in 1..Len(entries) |->
                     <<entries[i][1], transformExportObj(entries[i][2], srcDir)>>])]
     ELSE p

\* --------------------------------------------------------------------- state
VARIABLES
  argv,           \* the parsed command line
  pc,             \* where main / releaseCommand stands
  pkg,            \* the persisted package.json
  pkg0,           \* the persisted package.json when the process started
  originalPkg,    \* releaseCommand's originalPkg
  newVersion,     \* releaseCommand's newVersion
  staged,         \* the staging directory and the package.json written into it
  err,            \* message of the error being thrown
  commitMessage,  \* releaseCommand's commitMessage
  otpCode,        \* releaseCommand's otpCode
  isTTY,          \* whether stdin is a terminal: "unknown" until first used
  tty,            \* process.stdin: raw mode, paused, the data listener attached
  cs,             \* the getCommitMessage session
  os,             \* the promptOtp session
  timers,         \* pending Escape timers of the getCommitMessage session
  log,            \* what ran, in order
  exitCode,       \* -1 while the process runs
  failed,         \* the stage that threw, "none" if none did
  cancelled,      \* the session the user cancelled, "none" if none
  reported        \* the target version printed

vars == <<argv, pc, pkg, pkg0, originalPkg, newVersion, staged, err, commitMessage,
          otpCode, isTTY, tty, cs, os, timers, log, exitCode, failed, cancelled, reported>>

\* groups left alone together
files == <<pkg, staged>>
locals == <<originalPkg, newVersion, commitMessage, otpCode>>
terminal == <<isTTY, tty, cs, os, timers>>
ghosts == <<failed, cancelled, reported>>

flags == argv.flags

Seen(e) == \E i \in 1..Len(log) : log[i] = e

NoStaging == [dir |-> "absent", pkg |-> NoPkg]

\* escaped: an Escape key has reached the session's handler
NoSession == [promise |-> "none", placeholderCleared |-> FALSE, firstInput |-> TRUE,
              inputBuffer |-> <<>>, inputLines |-> <<>>, escaped |-> FALSE]

NoOtp == [promise |-> "none", code |-> <<>>, escaped |-> FALSE]

Init ==
  /\ argv \in Invocations
  /\ pc = "main"
  /\ pkg \in { Manifest(v, DeclaredExports) : v \in Versions }
  /\ pkg0 = pkg
  /\ originalPkg = NoPkg
  /\ newVersion = <<>>
  /\ staged \in { NoStaging, [dir |-> "stale", pkg |-> NoPkg] }
  /\ err = <<>>
  /\ commitMessage = <<>>
  /\ otpCode = <<>>
  /\ isTTY = "unknown"
  /\ tty = [raw |-> FALSE, paused |-> TRUE, listener |-> "none"]
  /\ cs = NoSession
  /\ os = NoOtp
  /\ timers = 0
  /\ log = <<>>
  /\ exitCode = -1
  /\ failed = "none"
  /\ cancelled = "none"
  /\ reported = <<>>

\* ------------------------------------------------------------ bin/itty.js main
Exit(code) == /\ exitCode' = code
              /\ pc' = "exited"

Main ==
  /\ pc = "main"
  /\ IF argv.version
     THEN /\ log' = Append(log, "version")
          /\ Exit(0)
     ELSE IF argv.sub = "none" \/ (argv.help /\ argv.sub = "unknown")
     THEN /\ log' = Append(log, "help")
          /\ Exit(0)
     ELSE IF argv.sub = "unknown"
     THEN /\ log' = log
          /\ Exit(1)
     ELSE /\ log' = log
          /\ pc' = "command"
          /\ exitCode' = exitCode
  /\ UNCHANGED <<argv, pkg0, files, locals, err, terminal, ghosts>>

\* build, lint and prepare run as subcommands: they return or throw
OtherCommand ==
  /\ pc = "command"
  /\ argv.sub = "other"
  /\ \E ok \in BOOLEAN :
       /\ pc' = IF ok THEN "returned" ELSE "thrown"
       /\ failed' = IF ok THEN failed ELSE "other"
  /\ UNCHANGED <<argv, pkg0, files, locals, err, terminal, cancelled, reported, log, exitCode>>

\* the command returned: nothing is left to run
MainReturn ==
  /\ pc = "returned"
  /\ Exit(0)
  /\ UNCHANGED <<argv, pkg0, files, locals, err, terminal, ghosts, log>>

\* catch (error) { process.exit(1) }
MainCatch ==
  /\ pc = "thrown"
  /\ Exit(1)
  /\ UNCHANGED <<argv, pkg0, files, locals, err, terminal, ghosts, log>>

\* ------------------------------------------------------------- error messages
ErrEscape == <<"User ">> \o Cancelled \o <<" with Escape key">>
ErrCtrlC == <<"User ">> \o Cancelled \o <<" with Ctrl+C">>
ErrNotTTY == <<"process.stdin.setRawMode is not a function">>
ErrNoOtp == <<"No OTP code provided">>
ErrSource == <<"Source directory does not exist. Run itty build first.">>
ErrPrepare == <<"Tests failed: Script 'test' exited with code 1">>
ErrRead == <<"ENOENT: no such file or directory, open package.json">>
ErrRemove == <<"EBUSY: resource busy or locked, rmdir">>

\* runCommand's rejection: Command failed with exit code ${code}: ${command}
ErrCommand(command) == <<"Command failed with exit code 1: ">> \o command

\* `released v${newVersion}`
DefaultMessage(version) == <<"released v">> \o version

\* the message with the quotes left as typed
FinalMessageUnescaped(version, customMessage) ==
  IF customMessage = <<>> THEN DefaultMessage(version)
  ELSE DefaultMessage(version) \o <<" - ">> \o customMessage

\* `released v${newVersion} - ${escapedMessage}`, or the default when nothing was typed
FinalMessage(version, customMessage) ==
  IF customMessage = <<>> THEN DefaultMessage(version)
  ELSE DefaultMessage(version) \o <<" - ">> \o EscapeQuotes(customMessage)

\* inputLines.join('\n')
RECURSIVE Join(_)
Join(lines) == IF lines = <<>> THEN <<>>
               ELSE IF Len(lines) = 1 THEN lines[1]
               ELSE lines[1] \o <<"\n">> \o Join(Tail(lines))

\* --------------------------------------------------------------- releaseCommand
\* the --type value before the three flags
releaseTypeTypeFirst(k) == IF k.type # "" THEN k.type
                           ELSE IF k.major THEN "major"
                           ELSE IF k.minor THEN "minor"
                           ELSE "patch"

releaseType(k) == IF k.major THEN "major"
                  ELSE IF k.minor THEN "minor"
                  ELSE IF k.patch THEN "patch"
                  ELSE IF k.type # "" THEN k.type
                  ELSE "patch"

\* { ...originalPkg, version: newVersion }
updatedPkg == [originalPkg EXCEPT !.version = newVersion]

\* AfterGit without its dry-run guard
AfterGitInDryRun == IF flags.otp THEN "otp" ELSE "publish"

\* the stage that follows, given the flags
AfterGit == IF flags.dryRun THEN "cleanup"
            ELSE IF flags.otp THEN "otp" ELSE "publish"

GitEnabled == ~flags.noGit /\ ~flags.dryRun

AfterPush == IF flags.tag THEN "gitPushTags" ELSE AfterGit

AfterTag == IF GitEnabled /\ flags.push THEN "gitPush" ELSE AfterGit

AfterCommit == IF GitEnabled /\ flags.tag THEN "gitTag" ELSE AfterTag

AfterPersist == IF GitEnabled /\ (flags.push \/ flags.tag) THEN "commitMsg" ELSE AfterCommit

\* an error thrown inside the outer try
Throw(stage, message, to) ==
  /\ err' = message
  /\ failed' = stage
  /\ pc' = to

\* parseArgs, the help text; parseArgs is strict unless told otherwise and
\* throws on an option that is not among its options
ReleaseArgs ==
  /\ pc = "command"
  /\ argv.sub = "release"
  /\ IF argv.noVersion
     THEN /\ log' = log
          /\ Throw("parse", <<"Unknown option '--no-version'">>, "thrown")
     ELSE IF argv.help
     THEN /\ log' = Append(log, "help")
          /\ pc' = "returned"
          /\ UNCHANGED <<err, failed>>
     ELSE /\ log' = log
          /\ pc' = "read"
          /\ UNCHANGED <<err, failed>>
  /\ UNCHANGED <<argv, pkg0, files, locals, terminal, cancelled, reported, exitCode>>

\* fs.readJSON(pkgPath), versionBump: before the try
ReadManifest ==
  /\ pc = "read"
  /\ \E readable \in BOOLEAN :
       IF readable
       THEN /\ originalPkg' = pkg
            /\ newVersion' = versionBump(pkg.version, releaseType(argv.kind))
            /\ pc' = IF flags.prepare THEN "prepare" ELSE "checkSrc"
            /\ UNCHANGED <<err, failed>>
       ELSE /\ Throw("read", ErrRead, "thrown")
            /\ UNCHANGED <<originalPkg, newVersion>>
  /\ UNCHANGED <<argv, pkg0, files, commitMessage, otpCode, terminal, cancelled, reported,
                 log, exitCode>>

\* prepareCommand: lint, test, build; its build may rewrite the exports of package.json
Prepare ==
  /\ pc = "prepare"
  /\ log' = Append(log, "prepare")
  /\ \E rebuilt \in BOOLEAN :
       pkg' = IF rebuilt THEN [pkg EXCEPT !.exports = BuiltExports] ELSE pkg
  /\ \E ok \in BOOLEAN :
       IF ok
       THEN /\ pc' = "checkSrc"
            /\ UNCHANGED <<err, failed>>
       ELSE Throw("prepare", ErrPrepare, "catch")
  /\ UNCHANGED <<argv, pkg0, staged, locals, terminal, cancelled, reported, exitCode>>

\* the "Releasing name vX -> vY" line, fs.pathExists(srcDir)
CheckSource ==
  /\ pc = "checkSrc"
  /\ reported' = newVersion
  /\ \E exists \in BOOLEAN :
       IF exists
       THEN /\ pc' = "stageClear"
            /\ UNCHANGED <<err, failed>>
       ELSE Throw("source", ErrSource, "catch")
  /\ UNCHANGED <<argv, pkg0, files, locals, terminal, cancelled, log, exitCode>>

\* fs.emptyDir(tempDir), fs.ensureDir(tempDir)
StageClear ==
  /\ pc = "stageClear"
  /\ staged' = [dir |-> "empty", pkg |-> NoPkg]
  /\ log' = Append(log, "emptyDir")
  /\ pc' = "stageCopy"
  /\ UNCHANGED <<argv, pkg0, pkg, locals, err, terminal, ghosts, exitCode>>

\* fs.copy(srcDir, tempDir, { filter }) and the root files
StageCopy ==
  /\ pc = "stageCopy"
  /\ staged' = [staged EXCEPT !.dir = "copied"]
  /\ log' = Append(log, "copy")
  /\ pc' = "stageWrite"
  /\ UNCHANGED <<argv, pkg0, pkg, locals, err, terminal, ghosts, exitCode>>

\* fs.writeJSON(tempPkgPath, updatedPkg)
StageWrite ==
  /\ pc = "stageWrite"
  /\ staged' = [dir |-> "staged", pkg |-> updatedPkg]
  /\ log' = Append(log, "writeTemp")
  /\ pc' = "persist"
  /\ UNCHANGED <<argv, pkg0, pkg, locals, err, terminal, ghosts, exitCode>>

\* Persist without its dry-run guard
PersistInDryRun ==
  /\ pc = "persist"
  /\ pkg' = updatedPkg
  /\ log' = Append(log, "persist")
  /\ pc' = AfterPersist
  /\ UNCHANGED <<argv, pkg0, staged, locals, err, terminal, ghosts, exitCode>>

\* if (!dryRun) fs.writeJSON(pkgPath, updatedPkg)
Persist ==
  /\ pc = "persist"
  /\ IF ~flags.dryRun
     THEN /\ pkg' = updatedPkg
          /\ log' = Append(log, "persist")
     ELSE UNCHANGED <<pkg, log>>
  /\ pc' = AfterPersist
  /\ UNCHANGED <<argv, pkg0, staged, locals, err, terminal, ghosts, exitCode>>

\* ------------------------------------------------------------ getCommitMessage
\* whether stdin is a terminal is settled the first time a session asks
IsTerminal(answer) == /\ answer \in {"yes", "no"}
                      /\ isTTY \in {"unknown", answer}

\* cleanup() without setRawMode(false)
cleanupKeepsRaw(t, session) ==
  [raw |-> t.raw, paused |-> TRUE,
   listener |-> IF t.listener = session THEN "none" ELSE t.listener]

\* cleanup(): setRawMode(false), pause(), removeListener('data', handleInput)
cleanup(t, session) ==
  [raw |-> FALSE, paused |-> TRUE,
   listener |-> IF t.listener = session THEN "none" ELSE t.listener]

\* a 'data' event reaches the handler of a session
Delivered(session) == /\ pc # "exited"
                      /\ tty.listener = session
                      /\ ~tty.paused

\* if (silent) return `released v${newVersion}`
GetCommitMessageSilent ==
  /\ pc = "commitMsg"
  /\ flags.silent
  /\ commitMessage' = DefaultMessage(newVersion)
  /\ pc' = "gitAdd"
  /\ UNCHANGED <<argv, pkg0, files, originalPkg, newVersion, otpCode, err, terminal,
                 ghosts, log, exitCode>>

\* the placeholder, setRawMode(true), resume(), on('data', handleInput);
\* stdin that is no terminal has no setRawMode, so the executor throws
GetCommitMessage ==
  /\ pc = "commitMsg"
  /\ ~flags.silent
  /\ \E answer \in {"yes", "no"} :
       /\ IsTerminal(answer)
       /\ isTTY' = answer
       /\ IF answer = "yes"
          THEN /\ tty' = [raw |-> TRUE, paused |-> FALSE, listener |-> "commit"]
               /\ cs' = [NoSession EXCEPT !.promise = "pending"]
               /\ pc' = "awaitCommit"
               /\ UNCHANGED <<err, failed>>
          ELSE /\ cs' = [NoSession EXCEPT !.promise = "rejected"]
               /\ Throw("commitMsg", ErrNotTTY, "commitCatch")
               /\ tty' = tty
  /\ UNCHANGED <<argv, pkg0, files, locals, os, timers, cancelled, reported, log, exitCode>>

\* handleInput, key === '\x1b': the 10 ms timer is armed, nothing else changes
CommitEscape ==
  /\ Delivered("commit")
  /\ timers < MaxTimers
  /\ timers' = timers + 1
  /\ cs' = [cs EXCEPT !.escaped = TRUE]
  /\ UNCHANGED <<argv, pc, pkg0, files, locals, err, isTTY, tty, os, ghosts, log, exitCode>>

\* the timer's callback: cleanup(), reject(new Error('User cancelled with Escape key'));
\* rejecting a promise that is already settled does nothing
EscapeTimeout ==
  /\ timers > 0
  /\ pc # "exited"
  /\ timers' = timers - 1
  /\ tty' = cleanup(tty, "commit")
  /\ IF cs.promise = "pending"
     THEN /\ cs' = [cs EXCEPT !.promise = "rejected"]
          /\ cancelled' = "commit"
          /\ Throw("commitMsg", ErrEscape, "commitCatch")
     ELSE UNCHANGED <<cs, cancelled, err, failed, pc>>
  /\ UNCHANGED <<argv, pkg0, files, locals, isTTY, os, reported, log, exitCode>>

\* handleInput, key === '\x03'
CommitCtrlC ==
  /\ Delivered("commit")
  /\ tty' = cleanup(tty, "commit")
  /\ cs' = [cs EXCEPT !.promise = "rejected"]
  /\ cancelled' = "commit"
  /\ Throw("commitMsg", ErrCtrlC, "commitCatch")
  /\ UNCHANGED <<argv, pkg0, files, locals, isTTY, os, timers, reported, log, exitCode>>

\* resolve(message): releaseCommand goes on to `git add .`
CommitResolve(message) ==
  /\ tty' = cleanup(tty, "commit")
  /\ cs' = [cs EXCEPT !.promise = "resolved"]
  /\ commitMessage' = message
  /\ pc' = "gitAdd"

\* the user presses Enter on an empty line or once a whole text is typed
EnterPressed == cs.inputBuffer = <<>> \/ cs.inputBuffer \in Texts

\* handleInput, key === '\r' || key === '\n'
CommitEnter ==
  /\ Delivered("commit")
  /\ EnterPressed
  /\ IF ~cs.placeholderCleared /\ cs.inputBuffer = <<>>
     THEN CommitResolve(DefaultMessage(newVersion))
     ELSE IF cs.firstInput
     THEN CommitResolve(FinalMessage(newVersion, Trim(cs.inputBuffer)))
     ELSE IF Trim(cs.inputBuffer) = <<>>
     THEN CommitResolve(FinalMessage(newVersion, Trim(Join(cs.inputLines))))
     ELSE /\ cs' = [cs EXCEPT !.inputLines = Append(@, cs.inputBuffer),
                              !.inputBuffer = <<>>,
                              !.firstInput = FALSE]
          /\ UNCHANGED <<tty, commitMessage, pc>>
  /\ UNCHANGED <<argv, pkg0, files, originalPkg, newVersion, otpCode, err, isTTY, os,
                 timers, ghosts, log, exitCode>>

\* handleInput, key === '\x7f' || key === '\x08'
CommitBackspace ==
  /\ Delivered("commit")
  /\ cs.placeholderCleared
  /\ cs.inputBuffer # <<>>
  /\ cs' = [cs EXCEPT !.inputBuffer = SubSeq(@, 1, Len(@) - 1)]
  /\ UNCHANGED <<argv, pc, pkg0, files, locals, err, isTTY, tty, os, timers, ghosts, log,
                 exitCode>>

\* handleInput, a printable character
CommitPrintable ==
  /\ Delivered("commit")
  /\ \E t \in Texts : \E i \in 1..Len(t) :
       /\ Typable(Append(cs.inputBuffer, t[i]))
       /\ cs' = [cs EXCEPT !.placeholderCleared = TRUE,
                           !.inputBuffer = Append(@, t[i])]
  /\ UNCHANGED <<argv, pc, pkg0, files, locals, err, isTTY, tty, os, timers, ghosts, log,
                 exitCode>>

\* the inner catch rethrowing every error
CommitCatchRethrows ==
  /\ pc = "commitCatch"
  /\ pc' = "catch"
  /\ UNCHANGED <<argv, pkg0, files, locals, err, terminal, ghosts, log, exitCode>>

\* releaseCommand's inner catch: a message holding 'cancelled' restores package.json
\* and exits 0, any other error is rethrown
CommitCatch ==
  /\ pc = "commitCatch"
  /\ IF Includes(err, Cancelled)
     THEN /\ pkg' = originalPkg
          /\ log' = Append(log, "restore")
          /\ Exit(0)
     ELSE /\ pc' = "catch"
          /\ UNCHANGED <<pkg, log, exitCode>>
  /\ UNCHANGED <<argv, pkg0, staged, locals, err, terminal, ghosts>>

\* ------------------------------------------------------------------ runCommand
\* one external command, awaited: it closes with code 0 or not
Run(name, command, next, handler) ==
  /\ log' = Append(log, name)
  /\ \E ok \in BOOLEAN :
       IF ok
       THEN /\ pc' = next
            /\ UNCHANGED <<err, failed>>
       ELSE Throw(name, ErrCommand(command), handler)
  /\ UNCHANGED <<argv, pkg0, files, locals, terminal, cancelled, reported, exitCode>>

GitAdd ==
  /\ pc = "gitAdd"
  /\ Run("gitAdd", <<"git add .">>, "gitCommit", "commitCatch")

GitCommit ==
  /\ pc = "gitCommit"
  /\ Run("gitCommit", <<"git commit -m ", "\"">> \o commitMessage \o <<"\"">>,
         AfterCommit, "commitCatch")

GitTag ==
  /\ pc = "gitTag"
  /\ Run("gitTag", <<"git tag -a v">> \o newVersion \o <<" -m ", "\"">> \o commitMessage
                     \o <<"\"">>,
         AfterTag, "catch")

GitPush ==
  /\ pc = "gitPush"
  /\ Run("gitPush", <<"git push">>, AfterPush, "catch")

GitPushTags ==
  /\ pc = "gitPushTags"
  /\ Run("gitPushTags", <<"git push --tags">>, AfterGit, "catch")

\* ------------------------------------------------------------------- promptOtp
\* setRawMode(true), resume(), on('data', handleInput)
PromptOtp ==
  /\ pc = "otp"
  /\ \E answer \in {"yes", "no"} :
       /\ IsTerminal(answer)
       /\ isTTY' = answer
       /\ IF answer = "yes"
          THEN /\ tty' = [raw |-> TRUE, paused |-> FALSE, listener |-> "otp"]
               /\ os' = [NoOtp EXCEPT !.promise = "pending"]
               /\ pc' = "awaitOtp"
               /\ UNCHANGED <<err, failed>>
          ELSE /\ os' = [NoOtp EXCEPT !.promise = "rejected"]
               /\ Throw("otp", ErrNotTTY, "catch")
               /\ tty' = tty
  /\ UNCHANGED <<argv, pkg0, files, locals, cs, timers, cancelled, reported, log, exitCode>>

\* handleInput, key === '\x03'
OtpCtrlC ==
  /\ Delivered("otp")
  /\ tty' = cleanup(tty, "otp")
  /\ os' = [os EXCEPT !.promise = "rejected"]
  /\ cancelled' = "otp"
  /\ Throw("otp", ErrCtrlC, "catch")
  /\ UNCHANGED <<argv, pkg0, files, locals, isTTY, cs, timers, reported, log, exitCode>>

\* handleInput, key === '\r' || key === '\n': resolve(code.trim()), and back in
\* releaseCommand: if (!otpCode) throw new Error('No OTP code provided')
OtpEnter ==
  /\ Delivered("otp")
  /\ tty' = cleanup(tty, "otp")
  /\ os' = [os EXCEPT !.promise = "resolved"]
  /\ otpCode' = Trim(os.code)
  /\ IF Trim(os.code) = <<>>
     THEN Throw("otp", ErrNoOtp, "catch")
     ELSE /\ pc' = "publish"
          /\ UNCHANGED <<err, failed>>
  /\ UNCHANGED <<argv, pkg0, files, originalPkg, newVersion, commitMessage, isTTY, cs,
                 timers, cancelled, reported, log, exitCode>>

\* handleInput, key === '\x7f' || key === '\x08'
OtpBackspace ==
  /\ Delivered("otp")
  /\ os.code # <<>>
  /\ os' = [os EXCEPT !.code = SubSeq(@, 1, Len(@) - 1)]
  /\ UNCHANGED <<argv, pc, pkg0, files, locals, err, isTTY, tty, cs, timers, ghosts, log,
                 exitCode>>

\* key >= '0' && key <= '9'
OtpAccepts(key) == ~StrLess(key, <<"0">>) /\ ~StrLess(<<"9">>, key)

\* handleInput, any other chunk: appended when the comparison accepts it,
\* dropped otherwise (Escape among them)
OtpChunk ==
  /\ Delivered("otp")
  /\ \E key \in OtpChunks :
       IF OtpAccepts(key)
       THEN /\ Len(os.code) + Len(key) <= MaxCode
            /\ os' = [os EXCEPT !.code = @ \o key]
       ELSE os' = [os EXCEPT !.escaped = @ \/ key = <<"ESC">>]
  /\ UNCHANGED <<argv, pc, pkg0, files, locals, err, isTTY, tty, cs, timers, ghosts, log,
                 exitCode>>

\* promptOtp never settles once stdin is paused under it: with no timer pending
\* nothing is left to run and the process ends
EventLoopEmpty ==
  /\ pc = "awaitOtp"
  /\ tty.paused
  /\ timers = 0
  /\ Exit(0)
  /\ UNCHANGED <<argv, pkg0, files, locals, err, terminal, ghosts, log>>

\* ------------------------------------------------- publish, cleanup, the catch
\* publishCmd: the parts that are not empty, joined by blanks
publishCmd(publicAccess, type, otp) ==
  <<"npm publish", " ", "--registry=https://registry.npmjs.org">>
    \o (IF publicAccess THEN <<" ", "--access=public">> ELSE <<>>)
    \o (IF type \in {"major", "minor", "patch"} THEN <<>> ELSE <<" ", "--tag=">> \o Chars(type))
    \o (IF otp # <<>> THEN <<" ", "--otp=">> \o otp ELSE <<>>)

\* runCommand(publishCmd, tempDir, true)
Publish ==
  /\ pc = "publish"
  /\ Run("publish", publishCmd(argv.public, releaseType(argv.kind), otpCode), "cleanup",
         "catch")

\* if (!noCleanup) fs.remove(tempDir)
Cleanup ==
  /\ pc = "cleanup"
  /\ IF flags.noCleanup
     THEN /\ pc' = "done"
          /\ UNCHANGED <<staged, log, err, failed>>
     ELSE /\ log' = Append(log, "remove")
          /\ \E ok \in BOOLEAN :
               IF ok
               THEN /\ staged' = NoStaging
                    /\ pc' = "done"
                    /\ UNCHANGED <<err, failed>>
               ELSE /\ Throw("cleanup", ErrRemove, "catch")
                    /\ staged' = staged
  /\ UNCHANGED <<argv, pkg0, pkg, locals, terminal, cancelled, reported, exitCode>>

\* the "Successfully released" line; releaseCommand returns
Done ==
  /\ pc = "done"
  /\ log' = Append(log, "success")
  /\ pc' = "returned"
  /\ UNCHANGED <<argv, pkg0, files, locals, err, terminal, ghosts, exitCode>>

\* the catch reverting nothing
RevertNothing ==
  /\ pc = "catch"
  /\ pc' = "rollbackClean"
  /\ UNCHANGED <<argv, pkg0, files, locals, err, terminal, ghosts, log, exitCode>>

\* the catch writing package.json whether or not the version differs
RevertAlways ==
  /\ pc = "catch"
  /\ pkg' = [pkg EXCEPT !.version = originalPkg.version]
  /\ log' = Append(log, "revert")
  /\ pc' = "rollbackClean"
  /\ UNCHANGED <<argv, pkg0, staged, locals, err, terminal, ghosts, exitCode>>

\* the catch also taking back the release commit
RevertUndoesCommit ==
  /\ pc = "catch"
  /\ IF ~flags.dryRun /\ pkg.version # originalPkg.version
     THEN /\ pkg' = [pkg EXCEPT !.version = originalPkg.version]
          /\ log' = log \o <<"revert", "gitReset">>
     ELSE UNCHANGED <<pkg, log>>
  /\ pc' = "rollbackClean"
  /\ UNCHANGED <<argv, pkg0, staged, locals, err, terminal, ghosts, exitCode>>

\* catch: if (!dryRun) re-read package.json and write the original version back
\* when it differs
Revert ==
  /\ pc = "catch"
  /\ IF ~flags.dryRun /\ pkg.version # originalPkg.version
     THEN /\ pkg' = [pkg EXCEPT !.version = originalPkg.version]
          /\ log' = Append(log, "revert")
     ELSE UNCHANGED <<pkg, log>>
  /\ pc' = "rollbackClean"
  /\ UNCHANGED <<argv, pkg0, staged, locals, err, terminal, ghosts, exitCode>>

\* catch: if (pathExists(tempDir) && !noCleanup) fs.remove(tempDir); throw error
RollbackCleanup ==
  /\ pc = "rollbackClean"
  /\ IF staged.dir # "absent" /\ ~flags.noCleanup
     THEN /\ staged' = NoStaging
          /\ log' = Append(log, "remove")
     ELSE UNCHANGED <<staged, log>>
  /\ pc' = "thrown"
  /\ UNCHANGED <<argv, pkg0, pkg, locals, err, terminal, ghosts, exitCode>>

\* ------------------------------------------------------------- specification
Next ==
  \/ Main \/ OtherCommand \/ MainReturn \/ MainCatch
  \/ ReleaseArgs \/ ReadManifest \/ Prepare \/ CheckSource
  \/ StageClear \/ StageCopy \/ StageWrite \/ Persist
  \/ GetCommitMessageSilent \/ GetCommitMessage
  \/ CommitEscape \/ EscapeTimeout \/ CommitCtrlC \/ CommitEnter
  \/ CommitBackspace \/ CommitPrintable \/ CommitCatch
  \/ GitAdd \/ GitCommit \/ GitTag \/ GitPush \/ GitPushTags
  \/ PromptOtp \/ OtpCtrlC \/ OtpEnter \/ OtpBackspace \/ OtpChunk \/ EventLoopEmpty
  \/ Publish \/ Cleanup \/ Done \/ Revert \/ RollbackCleanup

Spec == Init /\ [][Next]_vars

\* ------------------------------------------- publishCommand, the older variant
\* publishCommand has no --prepare, --silent and --otp
PublishInvocations ==
  { Invocation("publish", FALSE, TRUE, NoKind, NoFlags) }
    \cup { [Invocation("publish", FALSE, FALSE, k, f) EXCEPT !.public = p] :
             k \in KindFlags,
             f \in { g \in FlagSets : ~g.prepare /\ ~g.silent /\ ~g.otp },
             p \in BOOLEAN }

InitPublish ==
  /\ argv \in PublishInvocations
  /\ pc = "p:args"
  /\ pkg \in { Manifest(v, DeclaredExports) : v \in Versions }
  /\ pkg0 = pkg
  /\ originalPkg = NoPkg
  /\ newVersion = <<>>
  /\ staged \in { NoStaging, [dir |-> "stale", pkg |-> NoPkg] }
  /\ err = <<>>
  /\ commitMessage = <<>>
  /\ otpCode = <<>>
  /\ isTTY = "unknown"
  /\ tty = [raw |-> FALSE, paused |-> TRUE, listener |-> "none"]
  /\ cs = NoSession
  /\ os = NoOtp
  /\ timers = 0
  /\ log = <<>>
  /\ exitCode = -1
  /\ failed = "none"
  /\ cancelled = "none"
  /\ reported = <<>>

\* transformPackageExports({ ...pkg, version: newVersion }, publishArgs.src)
publishedPkg ==
  transformPackageExports([originalPkg EXCEPT !.version = newVersion],
                          <<"d", "i", "s", "t">>)

PublishAfterTag == IF flags.push THEN "p:gitPush" ELSE "p:cleanup"

PublishAfterCommit == IF flags.tag THEN "p:gitTag" ELSE PublishAfterTag

\* the stage after the registry step: if (!noGit && !dryRun) { ... }
PublishAfterNpm ==
  IF flags.noGit \/ flags.dryRun THEN "p:cleanup"
  ELSE IF flags.push \/ flags.tag THEN "p:gitAdd" ELSE PublishAfterCommit

\* parseArgs, the help text
PublishArgs ==
  /\ pc = "p:args"
  /\ IF argv.help
     THEN /\ log' = Append(log, "help")
          /\ pc' = "returned"
     ELSE /\ log' = log
          /\ pc' = "p:read"
  /\ UNCHANGED <<argv, pkg0, files, locals, err, terminal, ghosts, exitCode>>

\* fs.readJSON(pkgPath), versionBump, the "Publishing" line: inside the try
PublishRead ==
  /\ pc = "p:read"
  /\ \E readable \in BOOLEAN :
       IF readable
       THEN /\ originalPkg' = pkg
            /\ newVersion' = versionBump(pkg.version, releaseType(argv.kind))
            /\ reported' = versionBump(pkg.version, releaseType(argv.kind))
            /\ pc' = "p:checkSrc"
            /\ UNCHANGED <<err, failed>>
       ELSE /\ Throw("read", ErrRead, "p:catch")
            /\ UNCHANGED <<originalPkg, newVersion, reported>>
  /\ UNCHANGED <<argv, pkg0, files, commitMessage, otpCode, terminal, cancelled, log,
                 exitCode>>

\* fs.pathExists(srcDir)
PublishCheckSource ==
  /\ pc = "p:checkSrc"
  /\ \E exists \in BOOLEAN :
       IF exists
       THEN /\ pc' = "p:stageClear"
            /\ UNCHANGED <<err, failed>>
       ELSE Throw("source", ErrSource, "p:catch")
  /\ UNCHANGED <<argv, pkg0, files, locals, terminal, cancelled, reported, log, exitCode>>

\* fs.emptyDir(tempDir), fs.ensureDir(tempDir)
PublishStageClear ==
  /\ pc = "p:stageClear"
  /\ staged' = [dir |-> "empty", pkg |-> NoPkg]
  /\ log' = Append(log, "emptyDir")
  /\ pc' = "p:stageCopy"
  /\ UNCHANGED <<argv, pkg0, pkg, locals, err, terminal, ghosts, exitCode>>

\* fs.copy(srcDir, tempDir, { filter }) and the root files
PublishStageCopy ==
  /\ pc = "p:stageCopy"
  /\ staged' = [staged EXCEPT !.dir = "copied"]
  /\ log' = Append(log, "copy")
  /\ pc' = "p:stageWrite"
  /\ UNCHANGED <<argv, pkg0, pkg, locals, err, terminal, ghosts, exitCode>>

\* fs.writeJSON(tempPkgPath, updatedPkg); a dry run skips the registry step
PublishStageWrite ==
  /\ pc = "p:stageWrite"
  /\ staged' = [dir |-> "staged", pkg |-> publishedPkg]
  /\ log' = Append(log, "writeTemp")
  /\ pc' = IF flags.dryRun THEN PublishAfterNpm ELSE "p:npm"
  /\ UNCHANGED <<argv, pkg0, pkg, locals, err, terminal, ghosts, exitCode>>

\* runCommand(publishCmd, tempDir): publishCmd is npm publish, --access=public
\* and --tag=<type>, the parts that are not empty joined by blanks
PublishNpm ==
  /\ pc = "p:npm"
  /\ Run("publish",
         <<"npm publish">>
           \o (IF argv.public THEN <<" ", "--access=public">> ELSE <<>>)
           \o (IF releaseType(argv.kind) \in {"major", "minor", "patch"} THEN <<>>
               ELSE <<" ", "--tag=">> \o Chars(releaseType(argv.kind))),
         "p:persist", "p:catch")

\* fs.writeJSON(pkgPath, updatedPkg), after the registry step
PublishPersist ==
  /\ pc = "p:persist"
  /\ pkg' = publishedPkg
  /\ log' = Append(log, "persist")
  /\ pc' = PublishAfterNpm
  /\ UNCHANGED <<argv, pkg0, staged, locals, err, terminal, ghosts, exitCode>>

PublishGitAdd ==
  /\ pc = "p:gitAdd"
  /\ Run("gitAdd", <<"git add .">>, "p:gitCommit", "p:catch")

PublishGitCommit ==
  /\ pc = "p:gitCommit"
  /\ Run("gitCommit", <<"git commit -m ", "\"">> \o DefaultMessage(newVersion) \o <<"\"">>,
         PublishAfterCommit, "p:catch")

PublishGitTag ==
  /\ pc = "p:gitTag"
  /\ Run("gitTag", <<"git tag -a v">> \o newVersion \o <<" -m ", "\"", "Release v">>
                     \o newVersion \o <<"\"">>,
         PublishAfterTag, "p:catch")

PublishGitPush ==
  /\ pc = "p:gitPush"
  /\ Run("gitPush", <<"git push">>, IF flags.tag THEN "p:gitPushTags" ELSE "p:cleanup",
         "p:catch")

PublishGitPushTags ==
  /\ pc = "p:gitPushTags"
  /\ Run("gitPushTags", <<"git push --tags">>, "p:cleanup", "p:catch")

\* if (!noCleanup) fs.remove(tempDir); the "Successfully published" line
PublishCleanup ==
  /\ pc = "p:cleanup"
  /\ IF flags.noCleanup
     THEN /\ log' = Append(log, "success")
          /\ pc' = "returned"
          /\ UNCHANGED <<staged, err, failed>>
     ELSE \E ok \in BOOLEAN :
            IF ok
            THEN /\ staged' = NoStaging
                 /\ log' = log \o <<"remove", "success">>
                 /\ pc' = "returned"
                 /\ UNCHANGED <<err, failed>>
            ELSE /\ Throw("cleanup", ErrRemove, "p:catch")
                 /\ log' = Append(log, "remove")
                 /\ staged' = staged
  /\ UNCHANGED <<argv, pkg0, pkg, locals, terminal, cancelled, reported, exitCode>>

\* catch: if (pathExists(tempDir) && !noCleanup) fs.remove(tempDir); throw error
PublishCatch ==
  /\ pc = "p:catch"
  /\ IF staged.dir # "absent" /\ ~flags.noCleanup
     THEN /\ staged' = NoStaging
          /\ log' = Append(log, "remove")
     ELSE UNCHANGED <<staged, log>>
  /\ pc' = "thrown"
  /\ UNCHANGED <<argv, pkg0, pkg, locals, err, terminal, ghosts, exitCode>>

NextPublish ==
  \/ PublishArgs \/ PublishRead \/ PublishCheckSource
  \/ PublishStageClear \/ PublishStageCopy \/ PublishStageWrite
  \/ PublishNpm \/ PublishPersist
  \/ PublishGitAdd \/ PublishGitCommit \/ PublishGitTag \/ PublishGitPush
  \/ PublishGitPushTags \/ PublishCleanup \/ PublishCatch

SpecPublish == InitPublish /\ [][NextPublish]_vars

\* ------------------------------------------------ versionBump on its own
\* largest component of a version, largest pre-release counter
MaxPart == 10
MaxPre == 10

Triple(a, b, c) == DecStr(a) \o <<".">> \o DecStr(b) \o <<".">> \o DecStr(c)

\* what follows the triple: nothing, a bare tag, or a tag with its counter
Suffixes ==
  { <<>>, <<"-", "b", "e", "t", "a">> }
    \cup { <<"-">> \o Chars(t) \o <<".">> \o DecStr(n) : t \in {"beta", "b", "rc"},
                                                         n \in 0..MaxPre }

\* current versions: every triple, and 1.2.c with every suffix
BumpVersions ==
  { Triple(a, b, c) : a, b, c \in 0..MaxPart }
    \cup { Triple(1, 2, c) \o x : c \in 0..MaxPart, x \in Suffixes }

\* any of --major, --minor, --patch, with or without a --type, which may name
\* a standard kind
BumpKinds ==
  [major : BOOLEAN, minor : BOOLEAN, patch : BOOLEAN,
   type : {"", "major", "minor", "patch", "beta", "b", "rc"}]

InitBump ==
  /\ argv \in { Invocation("release", FALSE, FALSE, k, NoFlags) : k \in BumpKinds }
  /\ pc = "read"
  /\ pkg \in { Manifest(v, DeclaredExports) : v \in BumpVersions }
  /\ pkg0 = pkg
  /\ originalPkg = NoPkg
  /\ newVersion = <<>>
  /\ staged = NoStaging
  /\ err = <<>>
  /\ commitMessage = <<>>
  /\ otpCode = <<>>
  /\ isTTY = "unknown"
  /\ tty = [raw |-> FALSE, paused |-> TRUE, listener |-> "none"]
  /\ cs = NoSession
  /\ os = NoOtp
  /\ timers = 0
  /\ log = <<>>
  /\ exitCode = -1
  /\ failed = "none"
  /\ cancelled = "none"
  /\ reported = <<>>

\* originalPkg = await fs.readJSON(pkgPath); newVersion = versionBump(...)
BumpVersion ==
  /\ pc = "read"
  /\ originalPkg' = pkg
  /\ newVersion' = versionBump(pkg.version, releaseType(argv.kind))
  /\ pc' = "bumped"
  /\ UNCHANGED <<argv, pkg0, files, commitMessage, otpCode, err, terminal, ghosts, log,
                 exitCode>>

NextBump == BumpVersion

SpecBump == InitBump /\ [][NextBump]_vars

\* -------------------------------- releaseCommand on a malformed package.json
\* a version of two components only
V12 == <<"1", ".", "2">>

InitMalformed ==
  /\ argv \in { i \in Invocations : ~i.flags.dryRun /\ ~i.flags.noCleanup }
  /\ pc = "main"
  /\ pkg = Manifest(V12, DeclaredExports)
  /\ pkg0 = pkg
  /\ originalPkg = NoPkg
  /\ newVersion = <<>>
  /\ staged = NoStaging
  /\ err = <<>>
  /\ commitMessage = <<>>
  /\ otpCode = <<>>
  /\ isTTY = "unknown"
  /\ tty = [raw |-> FALSE, paused |-> TRUE, listener |-> "none"]
  /\ cs = NoSession
  /\ os = NoOtp
  /\ timers = 0
  /\ log = <<>>
  /\ exitCode = -1
  /\ failed = "none"
  /\ cancelled = "none"
  /\ reported = <<>>

SpecMalformed == InitMalformed /\ [][Next]_vars

\* -------------------------------------- transformPackageExports on its own
\* export targets: under ./d/, ./d/ itself, under ./dx/, outside both, with
\* /d/ further in, without the leading ./, without the trailing /, under ./d/d/
ExportPaths ==
  { <<".", "/", "d", "/", "a">>, <<".", "/", "d", "/">>, <<".", "/", "d", "x", "/", "a">>,
    <<".", "/", "a">>, <<".", "/", "a", "/", "d", "/", "b">>, <<"d", "/", "a">>,
    <<".", "/", "d">>, <<".", "/", "d", "/", "d", "/", "a">> }

\* exports: none, null, "", a bare target, { ".": target },
\* { ".": { import, types } }, and a table with nested conditions, a null
\* target and a fallback array
ExportTrees ==
  LET Str(s) == Json("str", s, <<>>)
      Obj(entries) == Json("obj", <<>>, entries)
  IN { NoExports, Json("null", <<>>, <<>>), Str(<<>>) }
       \cup { Str(p) : p \in ExportPaths }
       \cup { Obj(<< <<<<".">>, Str(p)>> >>) : p \in ExportPaths }
       \cup { Obj(<< <<<<".">>, Obj(<< <<<<"import">>, Str(p)>>, <<<<"types">>, Str(q)>> >>)>> >>) :
                p, q \in ExportPaths }
       \cup { Obj(<< <<<<".">>, Obj(<< <<<<"node">>, Obj(<< <<<<"import">>, Str(p)>> >>)>>,
                                      <<<<"default">>, Json("null", <<>>, <<>>)>> >>)>>,
                     <<<<".", "/", "u">>,
                       Json("arr", <<>>, << <<<<"0">>, Str(p)>>, <<<<"1">>, Str(q)>> >>)>> >>) :
                p, q \in ExportPaths }

\* nothing of the pipeline has run
Untouched ==
  /\ originalPkg = NoPkg
  /\ newVersion = <<>>
  /\ err = <<>>
  /\ commitMessage = <<>>
  /\ otpCode = <<>>
  /\ isTTY = "unknown"
  /\ tty = [raw |-> FALSE, paused |-> TRUE, listener |-> "none"]
  /\ cs = NoSession
  /\ os = NoOtp
  /\ timers = 0
  /\ log = <<>>
  /\ exitCode = -1
  /\ failed = "none"
  /\ cancelled = "none"
  /\ reported = <<>>

\* --src is d or dx
InitExports ==
  /\ argv \in { [src |-> d] : d \in { <<"d">>, <<"d", "x">> } }
  /\ pc = "read"
  /\ pkg \in { Manifest(V123, e) : e \in ExportTrees }
  /\ pkg0 = pkg
  /\ staged = NoStaging
  /\ Untouched

\* updatedPkg = transformPackageExports(pkg, srcDir)
TransformExports ==
  /\ pc = "read"
  /\ staged' = [dir |-> "staged", pkg |-> transformPackageExports(pkg, argv.src)]
  /\ pc' = "transformed"
  /\ UNCHANGED <<argv, pkg0, pkg, locals, err, terminal, ghosts, log, exitCode>>

SpecExports == InitExports /\ [][TransformExports]_vars

\* ------------------------------------------ releaseCommand, rollback failing
\* catch: fs.readJSON or fs.writeJSON of the revert throws; the inner catch
\* prints revertError and the rollback goes on
RevertFails ==
  /\ pc = "catch"
  /\ ~flags.dryRun
  /\ log' = Append(log, "revertFailed")
  /\ pc' = "rollbackClean"
  /\ UNCHANGED <<argv, pkg0, files, locals, err, terminal, ghosts, exitCode>>

\* catch: fs.remove(tempDir) throws, outside any try: its error leaves
\* releaseCommand and `throw error` is not reached
RollbackRemoveFails ==
  /\ pc = "rollbackClean"
  /\ staged.dir # "absent"
  /\ ~flags.noCleanup
  /\ err' = ErrRemove
  /\ log' = Append(log, "remove")
  /\ pc' = "thrown"
  /\ UNCHANGED <<argv, pkg0, files, locals, terminal, ghosts, exitCode>>

SpecRollback == Init /\ [][Next \/ RevertFails \/ RollbackRemoveFails]_vars

\* -------------------------------------------- releaseCommand, staging alone
\* A path is a text whose pieces are the words the copy filter looks for and
\* what lies between them.  The project directory, paths relative to it:
ProjectFiles ==
  { <<"package.json">>, <<"README.md">>, <<"LICENSE">>, <<"index.js">>,
    <<"dist", "/", "index.mjs">>, <<"dist", "/", "README.md">>,
    <<"dist", "/", "node_modules", "/", "dep.js">>, <<"dist", "/", ".DS_Store">>,
    <<"node_modules", "/", "dep", "/", "index.js">>,
    <<".git", "/", "config">>, <<".git", "ignore">>, <<".DS_Store">>,
    <<"coverage", "/", "lcov.info">>, <<".nyc_output", "/", "out.json">>,
    <<"docs", "/", "node_modules", ".md">>, <<"sub", "/", ".git", "/", "config">> }

\* how often the staging steps are run in a row
MaxRuns == 2

\* const filter = (src) => ...; relativePath = path.relative(srcDir, src)
filter(isRootPublish, src, relativePath) ==
  IF Includes(src, <<"node_modules">>) THEN FALSE
  ELSE IF isRootPublish
  THEN /\ ~IsPrefix(<<".git">>, relativePath)
       /\ ~Includes(relativePath, <<".DS_Store">>)
       /\ ~Includes(relativePath, <<"coverage", "/">>)
       /\ ~Includes(relativePath, <<".nyc_output", "/">>)
  ELSE TRUE

\* the state at the try of releaseCommand: --root or the default --src=dist,
\* --no-license or not, and a staging directory absent or left by an earlier
\* run with any of three files and perhaps a manifest in it
InitStage ==
  /\ argv \in [kind : {NoKind}, root : BOOLEAN, noLicense : BOOLEAN]
  /\ pc = "read"
  /\ pkg = Manifest(V123, DeclaredExports)
  /\ pkg0 = pkg
  /\ staged \in
       { [dir |-> "absent", pkg |-> NoPkg, tree |-> {}] }
         \cup [dir : {"stale"}, pkg : {NoPkg, Manifest(V123, BuiltExports)},
               tree : SUBSET { <<<<"old.js">>, "prior">>, <<<<"index.mjs">>, "prior">>,
                               <<<<"README.md">>, "prior">> }]
  /\ Untouched

\* fs.ensureDir alone: what is in the directory stays
StageEnsureOnly ==
  /\ pc = "bumped" \/ (pc = "staged" /\ Len(SelectSeq(log, LAMBDA e : e = "emptyDir")) < MaxRuns)
  /\ staged' = [staged EXCEPT !.dir = "empty"]
  /\ log' = Append(log, "emptyDir")
  /\ pc' = "stageCopy"
  /\ UNCHANGED <<argv, pkg0, pkg, locals, err, terminal, ghosts, exitCode>>

\* fs.emptyDir(tempDir), fs.ensureDir(tempDir); run again once staged
StageEmptyDir ==
  /\ pc = "bumped" \/ (pc = "staged" /\ Len(SelectSeq(log, LAMBDA e : e = "emptyDir")) < MaxRuns)
  /\ staged' = [dir |-> "empty", pkg |-> NoPkg, tree |-> {}]
  /\ log' = Append(log, "emptyDir")
  /\ pc' = "stageCopy"
  /\ UNCHANGED <<argv, pkg0, pkg, locals, err, terminal, ghosts, exitCode>>

\* fs.copy(srcDir, tempDir, { filter }): a file is copied when the filter
\* passes it and every directory above it
StageCopyTree ==
  /\ pc = "stageCopy"
  /\ LET sourceDir == IF argv.root THEN <<>> ELSE <<"dist", "/">>
         inside == { SubSeq(f, Len(sourceDir) + 1, Len(f)) :
                       f \in { g \in ProjectFiles : IsPrefix(sourceDir, g) } }
         passes(rel) == filter(argv.root, <<"/", "p", "/">> \o sourceDir \o rel, rel)
         copied == { rel \in inside :
                       /\ passes(rel)
                       /\ \A i \in 1..Len(rel) : rel[i] = "/" => passes(SubSeq(rel, 1, i - 1)) }
     IN staged' = [staged EXCEPT
                     !.dir = "copied",
                     !.tree = { e \in @ : e[1] \notin copied }
                                \cup { <<rel, "src">> : rel \in copied }]
  /\ log' = Append(log, "copy")
  /\ pc' = "stageRoot"
  /\ UNCHANGED <<argv, pkg0, pkg, locals, err, terminal, ghosts, exitCode>>

\* if (!isRootPublish): README.md, .npmrc and, without --no-license, LICENSE
\* are copied from the project directory when they exist
StageRootFiles ==
  /\ pc = "stageRoot"
  /\ LET rootFiles == { <<"README.md">>, <<".npmrc">> }
                        \cup (IF argv.noLicense THEN {} ELSE { <<"LICENSE">> })
         copied == IF argv.root THEN {} ELSE rootFiles \cap ProjectFiles
     IN staged' = [staged EXCEPT
                     !.tree = { e \in @ : e[1] \notin copied }
                                \cup { <<f, "root">> : f \in copied }]
  /\ pc' = "stageWrite"
  /\ UNCHANGED <<argv, pkg0, pkg, locals, err, terminal, ghosts, log, exitCode>>

\* fs.writeJSON(tempPkgPath, updatedPkg); reported keeps what the first run staged
StageManifest ==
  /\ pc = "stageWrite"
  /\ staged' = [dir |-> "staged", pkg |-> updatedPkg,
                tree |-> { e \in staged.tree : e[1] # <<"package.json">> }
                           \cup { <<<<"package.json">>, "manifest">> }]
  /\ reported' = IF Seen("writeTemp") THEN reported ELSE staged'
  /\ log' = Append(log, "writeTemp")
  /\ pc' = "staged"
  /\ UNCHANGED <<argv, pkg0, pkg, locals, err, terminal, failed, cancelled, exitCode>>

SpecStage ==
  InitStage /\ [][BumpVersion \/ StageEmptyDir \/ StageCopyTree \/ StageRootFiles
                    \/ StageManifest]_vars

\* -------------------------------------- getCommitMessage, the line finalized
MaxMsg == 3

\* a first line of up to MaxMsg characters is in the buffer when Enter arrives:
\* letters, blanks, double quotes and backslashes
InitMessage ==
  LET Keys == {"a", " ", "\"", "\\"}
      Lines == UNION { [1..n -> Keys] : n \in 0..MaxMsg }
  IN /\ argv = Invocation("release", FALSE, FALSE, NoKind, NoFlags)
     /\ pc = "commit"
     /\ pkg = Manifest(V123, DeclaredExports)
     /\ pkg0 = pkg
     /\ originalPkg = pkg
     /\ newVersion = versionBump(pkg.version, releaseType(argv.kind))
     /\ staged = NoStaging
     /\ err = <<>>
     /\ commitMessage = <<>>
     /\ otpCode = <<>>
     /\ isTTY = "yes"
     /\ tty = [raw |-> TRUE, paused |-> FALSE, listener |-> "commit"]
     /\ cs \in { [NoSession EXCEPT !.promise = "pending",
                                   !.placeholderCleared = l # <<>>,
                                   !.inputBuffer = l] : l \in Lines }
     /\ os = NoOtp
     /\ timers = 0
     /\ log = <<>>
     /\ exitCode = -1
     /\ failed = "none"
     /\ cancelled = "none"
     /\ reported = <<>>

\* handleInput, Enter on the first line: the session resolves with the message
FirstLineEnter ==
  /\ pc = "commit"
  /\ cs.promise = "pending"
  /\ cs.firstInput
  /\ commitMessage' = IF ~cs.placeholderCleared /\ cs.inputBuffer = <<>>
                      THEN DefaultMessage(newVersion)
                      ELSE FinalMessage(newVersion, Trim(cs.inputBuffer))
  /\ cs' = [cs EXCEPT !.promise = "resolved"]
  /\ tty' = [raw |-> FALSE, paused |-> TRUE, listener |-> "none"]
  /\ pc' = "gitAdd"
  /\ UNCHANGED <<argv, pkg0, files, originalPkg, newVersion, otpCode, err, isTTY, os,
                 timers, ghosts, log, exitCode>>

SpecMessage == InitMessage /\ [][FirstLineEnter]_vars

\* ------------------------------------------------- runCommand, runNpmScript
MaxChunks == 2

\* a child process was spawned by runCommand or by runNpmScript, with or without
\* --verbose; `reported` holds the closure's two buffers, `log` what reached the
\* terminal, as pairs <<channel, text>>
InitRun ==
  /\ argv \in [runner : {"runCommand", "runNpmScript"}, verbose : BOOLEAN]
  /\ pc = "running"
  /\ pkg = NoPkg
  /\ pkg0 = pkg
  /\ staged = NoStaging
  /\ originalPkg = NoPkg
  /\ newVersion = <<>>
  /\ commitMessage = <<>>
  /\ otpCode = <<>>
  /\ err = <<>>
  /\ isTTY = "unknown"
  /\ tty = [raw |-> FALSE, paused |-> TRUE, listener |-> "none"]
  /\ cs = NoSession
  /\ os = NoOtp
  /\ timers = 0
  /\ log = <<>>
  /\ exitCode = -1
  /\ failed = "none"
  /\ cancelled = "none"
  /\ reported = [stdout |-> <<>>, stderr |-> <<>>]

\* proc.stdout.on('data'), proc.stderr.on('data'); with stdio 'inherit' the
\* child writes to the terminal itself and no handler is installed
Data ==
  /\ pc = "running"
  /\ \E stream \in {"stdout", "stderr"} :
       LET chunk == IF stream = "stdout" THEN "o" ELSE "e"
       IN IF argv.verbose
          THEN /\ Len(SelectSeq(log, LAMBDA l : l = <<"inherit", <<chunk>>>>)) < MaxChunks
               /\ log' = Append(log, <<"inherit", <<chunk>>>>)
               /\ reported' = reported
          ELSE /\ Len(reported[stream]) < MaxChunks
               /\ reported' = [reported EXCEPT ![stream] = Append(@, chunk)]
               /\ log' = log
  /\ UNCHANGED <<argv, pc, pkg0, files, locals, err, terminal, failed, cancelled, exitCode>>

\* proc.on('close')
Close ==
  /\ pc = "running"
  /\ \E code \in 0..1 :
       LET stdout == reported.stdout
           stderr == reported.stderr
           Shown(channel, text) == IF text # <<>> THEN << <<channel, text>> >> ELSE <<>>
       IN IF code = 0
          THEN /\ pc' = "resolved"
               /\ UNCHANGED <<log, err, failed>>
          ELSE /\ log' =
                    IF argv.verbose THEN log
                    ELSE IF argv.runner = "runCommand"
                    THEN log \o Shown("console.error", stderr)
                    ELSE IF stdout # <<>> \/ stderr # <<>>
                    THEN log \o << <<"console.error", <<"\n--- Output from failed command ---">>>> >>
                             \o Shown("console.log", stdout)
                             \o Shown("console.error", stderr)
                             \o << <<"console.error", <<"--- End output ---\n">>>> >>
                    ELSE log
               /\ Throw(argv.runner,
                        IF argv.runner = "runCommand" THEN ErrCommand(<<"git add .">>)
                        ELSE <<"Script 'test' exited with code 1">>,
                        "rejected")
  /\ UNCHANGED <<argv, pkg0, files, locals, terminal, cancelled, reported, exitCode>>

SpecRun == InitRun /\ [][Data \/ Close]_vars

\* ------------------------------------------------------------ prepareCommand
\* package.json has any of the scripts lint, test and build, ./src exists or
\* not, --verbose is given or not; `log` holds the commands started and the
\* lines printed after them
InitPrepare ==
  /\ argv \in [scripts : SUBSET {"lint", "test", "build"}, srcExists : BOOLEAN,
               verbose : BOOLEAN]
  /\ pc = "lint"
  /\ pkg = Manifest(V123, DeclaredExports)
  /\ pkg0 = pkg
  /\ staged = NoStaging
  /\ Untouched

\* a step of the sequence: the command is started, and it passes or fails
PrepareStep(step, command, passed, prefix, message, to) ==
  /\ pc = step
  /\ \E ok \in BOOLEAN :
       IF ok
       THEN /\ log' = log \o <<command>> \o (IF argv.verbose THEN <<>> ELSE <<passed>>)
            /\ pc' = to
            /\ UNCHANGED <<err, failed>>
       ELSE /\ log' = Append(log, command)
            /\ Throw(step, <<prefix, message>>, "thrown")
  /\ UNCHANGED <<argv, pkg0, files, locals, terminal, cancelled, reported, exitCode>>

\* the test step with a failure that is caught and not thrown again
PrepareTestGoesOn ==
  IF "test" \in argv.scripts
  THEN /\ pc = "test"
       /\ \E ok \in BOOLEAN :
            /\ log' = log \o <<"npm run test">>
                          \o (IF ok /\ ~argv.verbose THEN <<"Tests passed">> ELSE <<>>)
            /\ pc' = "build"
            /\ IF ok THEN UNCHANGED <<err, failed>>
               ELSE /\ err' = <<"Tests failed: ", "Script 'test' exited with code 1">>
                    /\ failed' = "test"
       /\ UNCHANGED <<argv, pkg0, files, locals, terminal, cancelled, reported, exitCode>>
  ELSE /\ pc = "test"
       /\ pc' = "build"
       /\ UNCHANGED <<argv, pkg0, files, locals, err, terminal, ghosts, log, exitCode>>

\* 1. Lint: the lint script, or the built-in lintCommand
PrepareLint ==
  IF "lint" \in argv.scripts
  THEN PrepareStep("lint", "npm run lint", "Lint passed", "Lint failed: ",
                   "Script 'lint' exited with code 1", "test")
  ELSE PrepareStep("lint", "lintCommand", "Lint passed", "Lint failed: ",
                   "ESLint exited with code 1", "test")

\* 2. Test: the test script, or nothing
PrepareTest ==
  IF "test" \in argv.scripts
  THEN PrepareStep("test", "npm run test", "Tests passed", "Tests failed: ",
                   "Script 'test' exited with code 1", "build")
  ELSE /\ pc = "test"
       /\ pc' = "build"
       /\ UNCHANGED <<argv, pkg0, files, locals, err, terminal, ghosts, log, exitCode>>

\* 3. Build: the build script, or the built-in build when ./src exists
PrepareBuild ==
  IF "build" \in argv.scripts
  THEN PrepareStep("build", "npm run build", "Build completed", "Build failed: ",
                   "Script 'build' exited with code 1", "returned")
  ELSE IF argv.srcExists
  THEN PrepareStep("build", "build", "Build completed", "Build failed: ",
                   "No entry files found", "returned")
  ELSE /\ pc = "build"
       /\ pc' = "returned"
       /\ UNCHANGED <<argv, pkg0, files, locals, err, terminal, ghosts, log, exitCode>>

SpecPrepare == InitPrepare /\ [][PrepareLint \/ PrepareTest \/ PrepareBuild]_vars

\* ------------------------------------------- releaseCommand with --no-version
\* `itty release --dry-run --no-git [--no-version]` with any release kind and
\* any of --no-cleanup, --tag, --push and --prepare
InitNoVersion ==
  /\ argv \in { [Invocation("release", FALSE, FALSE, k, f) EXCEPT !.noVersion = n] :
                  k \in KindFlags,
                  f \in { g \in FlagSets : g.dryRun /\ g.noGit /\ ~g.silent /\ ~g.otp },
                  n \in BOOLEAN }
  /\ pc = "main"
  /\ pkg \in { Manifest(v, DeclaredExports) : v \in Versions }
  /\ pkg0 = pkg
  /\ staged \in { NoStaging, [dir |-> "stale", pkg |-> NoPkg] }
  /\ Untouched

\* the steps of a dry run without git
SpecNoVersion ==
  InitNoVersion
    /\ [][Main \/ MainReturn \/ MainCatch \/ ReleaseArgs \/ ReadManifest \/ Prepare
           \/ CheckSource \/ StageClear \/ StageCopy \/ StageWrite \/ Persist
           \/ Cleanup \/ Done \/ Revert \/ RollbackCleanup]_vars

\* ------------------------------------- releaseCommand, staging with a --dest
\* The project directory /p and the directory next to it as one tree of files
\* <<path from /p, content>>.  sourceDir is --src (dist, lib or .) or . under
\* --root; tempDir is ../.p-dist when sourceDir is ., and --dest joined to /p
\* otherwise: .dist, dist, lib, dist/out, or . (the text <<>>).  staged.src and
\* staged.dir hold the two directories, staged.tree the files.
InitDest ==
  /\ argv \in [kind : {NoKind}, root : BOOLEAN, noLicense : BOOLEAN,
               src : { <<"dist">>, <<"lib">>, <<>> },
               dest : { <<".dist">>, <<"dist">>, <<"lib">>, <<"dist", "/", "out">>, <<>> }]
  /\ pc = "read"
  /\ pkg = Manifest(V123, DeclaredExports)
  /\ pkg0 = pkg
  /\ \E stale \in SUBSET { <<".dist", "/", "old.js">>, <<"..", "/", ".p-dist", "/", "old.js">> } :
       LET sourceDir == IF argv.root THEN <<>> ELSE argv.src
       IN staged = [src |-> sourceDir,
                    dir |-> IF sourceDir = <<>> THEN <<"..", "/", ".p-dist">> ELSE argv.dest,
                    pkg |-> NoPkg,
                    tree |-> { <<f, "original">> :
                                 f \in ProjectFiles \cup { <<"lib", "/", "index.js">> } \cup stale }]
  /\ Untouched

\* fs.emptyDir(tempDir), fs.ensureDir(tempDir): every file below tempDir goes
DestEmptyDir ==
  /\ pc = "bumped"
  /\ staged' = [staged EXCEPT
                  !.tree = { e \in @ : IF staged.dir = <<>> THEN e[1][1] = ".."
                                       ELSE ~IsPrefix(staged.dir \o <<"/">>, e[1]) }]
  /\ log' = Append(log, "emptyDir")
  /\ pc' = "stageCopy"
  /\ UNCHANGED <<argv, pkg0, pkg, locals, err, terminal, ghosts, exitCode>>

\* fs.copy(srcDir, tempDir, { filter }): it throws when the two are the same
\* directory, when tempDir lies inside srcDir, and when srcDir is gone; a file is
\* copied when the filter passes it and every directory above it
DestCopy ==
  /\ pc = "stageCopy"
  /\ log' = Append(log, "copy")
  /\ LET Below(dir, f) == IF dir = <<>> THEN f[1] # ".." ELSE IsPrefix(dir \o <<"/">>, f)
         Joined(dir, rel) == IF dir = <<>> THEN rel ELSE dir \o <<"/">> \o rel
         srcDir == staged.src
         tempDir == staged.dir
         isRootPublish == srcDir = <<>>
         inside == { SubSeq(e[1], Len(Joined(srcDir, <<"x">>)), Len(e[1])) :
                       e \in { g \in staged.tree : Below(srcDir, g[1]) } }
         passes(rel) == filter(isRootPublish, <<"/", "p", "/">> \o Joined(srcDir, rel), rel)
         copied == { rel \in inside :
                       /\ passes(rel)
                       /\ \A i \in 1..Len(rel) : rel[i] = "/" => passes(SubSeq(rel, 1, i - 1)) }
     IN IF srcDir = tempDir
        THEN /\ Throw("copy", <<"Source and destination must not be the same.">>, "catch")
             /\ staged' = staged
        ELSE IF Below(srcDir, tempDir)
        THEN /\ Throw("copy", <<"Cannot copy to a subdirectory of itself">>, "catch")
             /\ staged' = staged
        ELSE IF inside = {}
        THEN /\ Throw("copy", <<"ENOENT: no such file or directory, lstat">>, "catch")
             /\ staged' = staged
        ELSE /\ staged' = [staged EXCEPT
                             !.tree = { e \in @ : e[1] \notin { Joined(tempDir, rel) : rel \in copied } }
                                        \cup { <<Joined(tempDir, rel), "copied">> : rel \in copied }]
             /\ pc' = "stageRoot"
             /\ UNCHANGED <<err, failed>>
  /\ UNCHANGED <<argv, pkg0, pkg, locals, terminal, cancelled, reported, exitCode>>

\* if (!isRootPublish): README.md, .npmrc and, without --no-license, LICENSE
\* are copied from the project directory when they exist
DestRootFiles ==
  /\ pc = "stageRoot"
  /\ LET rootFiles == { <<"README.md">>, <<".npmrc">> }
                        \cup (IF argv.noLicense THEN {} ELSE { <<"LICENSE">> })
         copied == IF staged.src = <<>> THEN {}
                   ELSE { f \in rootFiles : \E e \in staged.tree : e[1] = f }
         destFile(f) == IF staged.dir = <<>> THEN f ELSE staged.dir \o <<"/">> \o f
     IN staged' = [staged EXCEPT
                     !.tree = { e \in @ : e[1] \notin { destFile(f) : f \in copied } }
                                \cup { <<destFile(f), "copied">> : f \in copied }]
  /\ pc' = "stageWrite"
  /\ UNCHANGED <<argv, pkg0, pkg, locals, err, terminal, ghosts, log, exitCode>>

\* fs.writeJSON(tempPkgPath, updatedPkg)
DestManifest ==
  /\ pc = "stageWrite"
  /\ LET tempPkgPath == IF staged.dir = <<>> THEN <<"package.json">>
                        ELSE staged.dir \o <<"/", "package.json">>
     IN staged' = [staged EXCEPT
                     !.pkg = updatedPkg,
                     !.tree = { e \in @ : e[1] # tempPkgPath } \cup { <<tempPkgPath, "manifest">> }]
  /\ log' = Append(log, "writeTemp")
  /\ pc' = "staged"
  /\ UNCHANGED <<argv, pkg0, pkg, locals, err, terminal, ghosts, exitCode>>

SpecDest ==
  InitDest /\ [][BumpVersion \/ DestEmptyDir \/ DestCopy \/ DestRootFiles \/ DestManifest]_vars

\* --------------------------------------------------------------------- claims
Exited == pc = "exited"

\* the stages at or after the write of the persisted manifest
PostBoundary == {"commitMsg", "gitAdd", "gitCommit", "gitTag", "gitPush", "gitPushTags",
                 "otp", "publish", "cleanup"}

GitEvents == {"gitAdd", "gitCommit", "gitTag", "gitPush", "gitPushTags"}

\* the pipeline's own writes of the persisted manifest
ManifestWrites == {"persist", "revert", "restore"}

\* the target version of the invocation
next == versionBump(pkg0.version, releaseType(argv.kind))

C2_VersionWindow ==
  /\ pkg.version \in {pkg0.version, next}
  /\ pkg.version # pkg0.version => (~flags.dryRun /\ Seen("writeTemp"))
  /\ pc \in {"main", "command", "read", "prepare", "checkSrc", "stageClear", "stageCopy",
             "stageWrite", "persist"} => pkg.version = pkg0.version

\* the window is open: the next version is persisted while git runs
C2_Witness ==
  /\ pc = "gitCommit"
  /\ pkg.version = next
  /\ pkg.version # pkg0.version

C5_NoCompensation ==
  failed \in {"read", "prepare", "source"} => ~Seen("remove")

\* C7: when the commit-message session is cancelled, the persisted manifest is
\* written back to what it was at the start, no git command and no registry
\* publish runs, and the process exits with code 0.
C7_CommitCancelled ==
  cancelled = "commit" =>
    /\ \A e \in GitEvents \cup {"publish"} : ~Seen(e)
    /\ Exited => (exitCode = 0 /\ pkg = pkg0 /\ Seen("restore"))

\* a cancelled commit-message session after which the process has exited
C7_Witness ==
  /\ cancelled = "commit"
  /\ Exited
  /\ Seen("persist")
  /\ pkg = pkg0

\* C8: the interrupt key at the one-time-password prompt ends the process with
\* the version reverted and exit code 0.
C8_OtpCancelClean ==
  (cancelled = "otp" /\ Exited) => (exitCode = 0 /\ pkg.version = pkg0.version)

\* the command succeeded
Succeeded == Seen("success") \/ (argv.sub = "other" /\ failed = "none")

\* C9: the exit code is 0 exactly when the command succeeded, help (or the
\* version) was displayed, or the user cancelled.
C9_ExitCode ==
  Exited => (exitCode = 0 <=> (Succeeded \/ Seen("help") \/ Seen("version")
                                 \/ cancelled # "none"))

Settled == {"resolved", "rejected"}

\* C10: whenever a session settles (resolved, rejected by a cancellation, or
\* rejected by an error thrown while it starts), stdin is not in raw mode in the
\* state in which releaseCommand goes on.
C10_RawReleased ==
  [][ (\/ (cs.promise \notin Settled /\ cs.promise' \in Settled)
       \/ (os.promise \notin Settled /\ os.promise' \in Settled))
      => ~tty'.raw ]_vars

\* both sessions were held on a terminal and have settled, raw mode is off
C10_Witness ==
  /\ isTTY = "yes"
  /\ cs.promise = "resolved"
  /\ os.promise = "resolved"
  /\ ~tty.raw

\* the place of an event in the fixed order of the stages; 0 for what is no stage
Rank(e) ==
  CASE e = "prepare" -> 1
    [] e \in {"emptyDir", "copy", "writeTemp"} -> 2
    [] e = "persist" -> 3
    [] e \in {"gitAdd", "gitCommit"} -> 4
    [] e = "gitTag" -> 5
    [] e \in {"gitPush", "gitPushTags"} -> 6
    [] e = "publish" -> 7
    [] e = "remove" -> 8
    [] e = "success" -> 9
    [] OTHER -> 0

\* the git steps the flags ask for
RequestedGit ==
  IF flags.noGit \/ flags.dryRun THEN {}
  ELSE (IF flags.push \/ flags.tag THEN {"gitAdd", "gitCommit"} ELSE {})
       \cup (IF flags.tag THEN {"gitTag"} ELSE {})
       \cup (IF flags.push THEN {"gitPush"} ELSE {})
       \cup (IF flags.push /\ flags.tag THEN {"gitPushTags"} ELSE {})

\* C6: what ran, ran in the order Prepare, Stage, manifest write, GitCommit,
\* GitTag, GitPush, RegistryPublish, Cleanup; the manifest write precedes every
\* git step; the registry publish starts only after every requested git step
\* has run and succeeded.
C6_StageOrder ==
  /\ \A i, j \in 1..Len(log) :
       (i < j /\ Rank(log[i]) > 0 /\ Rank(log[j]) > 0) => Rank(log[i]) <= Rank(log[j])
  /\ (\E e \in GitEvents : Seen(e)) => Seen("persist")
  /\ Seen("publish") => /\ \A e \in RequestedGit : Seen(e)
                        /\ failed \notin GitEvents

\* releaseCommand keeps the order: a full run with commit, tag and push
C6_ReleaseWitness ==
  /\ Seen("gitPushTags")
  /\ Seen("publish")
  /\ Seen("success")

\* C11: what a finished commit-message session left behind (its Escape timer)
\* changes neither the terminal mode, nor whether stdin is paused, nor any
\* session's result when it runs during a later session or stage.
C11_StaleHandlerInert ==
  [][ (timers' < timers /\ cs.promise \in Settled)
      => (tty' = tty /\ cs' = cs /\ os' = os) ]_vars

\* C12: a commit-message session that has received an Escape never ends with
\* a value.
C12_EscapeCancels ==
  cs.escaped => cs.promise # "resolved"

\* C13: an Escape at the one-time-password prompt cancels the session and
\* releases raw mode.
C13_OtpEscapeCancels ==
  os.escaped => (os.promise = "rejected" /\ ~tty.raw)

\* the first line of a commit-message session is finalized in this step
FirstLineDone ==
  /\ cs.promise = "pending"
  /\ cs'.promise = "resolved"
  /\ cs.inputLines = <<>>

\* C14, as stated: Enter on a first line that holds content finalizes the
\* session with exactly that line (by itself, or as the text the message
\* carries, its quotes escaped or not).
C14_FirstLineExact ==
  [][ (FirstLineDone /\ cs.inputBuffer # <<>>)
      => commitMessage' \in
           { cs.inputBuffer,
             EscapeQuotes(cs.inputBuffer),
             <<"released v">> \o next \o <<" - ">> \o cs.inputBuffer,
             <<"released v">> \o next \o <<" - ">> \o EscapeQuotes(cs.inputBuffer) } ]_vars

\* C14, amended: no Enter on the first line appends instead of finalizing, and
\* the session resolves with `released v<next> - <line>`, the line trimmed and
\* its quotes escaped, or with `released v<next>` when the trimmed line is empty.
C14_FirstLineTrimmed ==
  [][ /\ cs'.inputLines = <<>>
      /\ FirstLineDone =>
           commitMessage' =
             IF Trim(cs.inputBuffer) = <<>>
             THEN <<"released v">> \o next
             ELSE <<"released v">> \o next \o <<" - ">> \o EscapeQuotes(Trim(cs.inputBuffer))
    ]_vars

\* blank, quote, blank, Enter: the session resolved with the quote alone, escaped
C14_Witness ==
  /\ cs.promise = "resolved"
  /\ cs.inputBuffer = Quoted
  /\ commitMessage = <<"released v">> \o next \o <<" - ", "\\", "\"">>

\* C15: multi-line entry can be reached: with a line of content typed, an
\* Enter can append the line and leave the session pending.
C15_MultiLineReachable ==
  (Delivered("commit") /\ cs.inputBuffer \in Texts /\ Trim(cs.inputBuffer) # <<>>)
    => ENABLED (CommitEnter /\ cs'.promise = "pending" /\ cs'.inputLines # <<>>)

\* no session ever appends a line: firstInput is true whenever Enter tests it
C15_NeverAppends ==
  /\ cs.inputLines = <<>>
  /\ cs.firstInput

\* C16: the one-time-password buffer, and the code the session resolves with,
\* hold digits only.
C16_OtpDigitsOnly ==
  /\ AllDigits(os.code)
  /\ AllDigits(otpCode)

\* C17: with --silent no session is started: stdin never enters raw mode and
\* neither prompt ever awaits a key.
C17_SilentNoSession ==
  flags.silent => (~tty.raw /\ cs.promise = "none" /\ os.promise = "none")

\* the components of a version that is a plain triple
PartsOf(v) == LET raw == Split(v, <<".">>) IN [i \in 1..Len(raw) |-> DecVal(raw[i])]

IsTriple(v) == LET raw == Split(v, <<".">>)
               IN Len(raw) = 3 /\ \A i \in 1..3 : raw[i] # <<>> /\ AllDigits(raw[i])

\* C18: on a plain triple a.b.c, kind patch gives a.b.(c+1), kind minor gives
\* a.(b+1).0, kind major gives (a+1).0.0.
C18_SemverBump ==
  (pc = "bumped" /\ IsTriple(pkg.version)) =>
    LET p == PartsOf(pkg.version)
        type == releaseType(argv.kind)
    IN /\ type = "patch" => newVersion = Triple(p[1], p[2], p[3] + 1)
       /\ type = "minor" => newVersion = Triple(p[1], p[2] + 1, 0)
       /\ type = "major" => newVersion = Triple(p[1] + 1, 0, 0)

\* 9.9.9 bumped with kind minor is 9.10.0
C18_Witness ==
  /\ pc = "bumped"
  /\ pkg.version = <<"9", ".", "9", ".", "9">>
  /\ argv.kind.minor
  /\ newVersion = <<"9", ".", "1", "0", ".", "0">>

\* the places where v ends with -k.<n>
CounterAt(v, k) ==
  LET tag == <<"-">> \o Chars(k) \o <<".">>
  IN { i \in 1..Len(v) :
         /\ i + Len(tag) <= Len(v)
         /\ SubSeq(v, i, i + Len(tag) - 1) = tag
         /\ AllDigits(SubSeq(v, i + Len(tag), Len(v))) }

\* C19: for a custom kind k the result is the current version with its counter
\* incremented when it ends with -k.<n>, and the current version with -k.0
\* appended in every other case.
C19_CustomBump ==
  (pc = "bumped" /\ releaseType(argv.kind) \notin {"major", "minor", "patch"}) =>
    LET k == releaseType(argv.kind)
        v == pkg.version
        tag == <<"-">> \o Chars(k) \o <<".">>
    IN IF CounterAt(v, k) # {}
       THEN LET i == CHOOSE j \in CounterAt(v, k) : TRUE
            IN newVersion = SubSeq(v, 1, i - 1) \o tag
                              \o DecStr(DecVal(SubSeq(v, i + Len(tag), Len(v))) + 1)
       ELSE newVersion = v \o tag \o <<"0">>

\* three dot-separated non-negative integers, optionally followed by -<tag>.<n>
WellFormed(v) ==
  LET d == FirstAt(v, <<"-">>)
      core == IF d = 0 THEN v ELSE SubSeq(v, 1, d - 1)
      rest == IF d = 0 THEN <<>> ELSE SubSeq(v, d + 1, Len(v))
      parts == Split(rest, <<".">>)
  IN /\ IsTriple(core)
     /\ d # 0 => /\ Len(parts) = 2
                 /\ parts[1] # <<>>
                 /\ parts[2] # <<>>
                 /\ AllDigits(parts[2])

\* C20: on a current version that is not well formed versionBump returns no
\* version and the pipeline mutates nothing.
C20_MalformedStops ==
  ~WellFormed(pkg0.version) =>
    /\ newVersion = <<>>
    /\ pkg = pkg0
    /\ ~Seen("persist")

\* the part of C20 about the pipeline alone: nothing is persisted
C20_NothingPersisted ==
  ~WellFormed(pkg0.version) => ~Seen("persist")

\* the tree with every string leaf ./<srcDir>/<rest> turned into ./<rest>, its
\* keys and every other leaf as they are
RECURSIVE Stripped(_, _)
Stripped(value, srcDir) ==
  LET prefix == <<".", "/">> \o srcDir \o <<"/">> IN
  IF value.t = "str"
  THEN IF IsPrefix(prefix, value.v)
       THEN Json("str", <<".", "/">> \o SubSeq(value.v, Len(prefix) + 1, Len(value.v)), <<>>)
       ELSE value
  ELSE IF value.t \in {"obj", "arr"}
  THEN [value EXCEPT !.kv = [i \in 1..Len(value.kv) |->
                               <<value.kv[i][1], Stripped(value.kv[i][2], srcDir)>>]]
  ELSE value

\* the tree with its arrays read as objects keyed by index
RECURSIVE AsObjects(_)
AsObjects(value) ==
  IF value.t \in {"obj", "arr"}
  THEN Json("obj", <<>>,
            [i \in 1..Len(value.kv) |-> <<value.kv[i][1], AsObjects(value.kv[i][2])>>])
  ELSE value

\* C21: transformPackageExports returns the manifest with the same keys at
\* every depth of exports, every string leaf ./<srcDir>/<rest> replaced by
\* ./<rest>, every other leaf and every other field unchanged, and leaves its
\* input as it was.
C21_StripPrefix ==
  pc = "transformed" =>
    /\ AsObjects(staged.pkg.exports) = AsObjects(Stripped(pkg.exports, argv.src))
    /\ staged.pkg.version = pkg.version
    /\ pkg = pkg0

\* the same, of every exports value that is not a bare string
C21_TablesStripped ==
  (pc = "transformed" /\ pkg.exports.t # "str") =>
    /\ AsObjects(staged.pkg.exports) = AsObjects(Stripped(pkg.exports, argv.src))
    /\ staged.pkg.version = pkg.version
    /\ pkg = pkg0

\* C22: once the staging directory holds its manifest, that manifest carries
\* the next version and the exports of the persisted manifest with the ./dist/
\* prefix stripped from every path.
C22_StagedManifest ==
  staged.dir = "staged" =>
    /\ staged.pkg.version = newVersion
    /\ staged.pkg.exports \in { Stripped(pkg.exports, <<"d", "i", "s", "t">>),
                                Stripped(originalPkg.exports, <<"d", "i", "s", "t">>) }

\* C23: when the command has ended, on success, failure or cancellation, the
\* exports of the persisted manifest are what they were when it started.
C23_OnlyVersionChanges ==
  pc \in {"returned", "thrown", "exited"} => pkg.exports = pkg0.exports

\* C24: when a process that cleared the staging directory has ended, the
\* staging directory exists if and only if --no-cleanup was given.
C24_StagingAtExit ==
  (Exited /\ Seen("emptyDir")) => (flags.noCleanup <=> staged.dir # "absent")

\* C25: the error that leaves releaseCommand is the one of the stage that
\* failed: the prepare error, the missing-source error, or the failed command.
C25_OriginalError ==
  pc = "thrown" =>
    /\ failed = "prepare" => err = ErrPrepare
    /\ failed = "source" => err = ErrSource
    /\ failed \in GitEvents \cup {"publish"} =>
         IsPrefix(<<"Command failed with exit code 1: ">>, err)

\* C26: whenever the staging steps have completed, the staging directory holds
\* what their first run left there and nothing of what it held before.
C26_StageIdempotent ==
  pc = "staged" =>
    /\ staged = reported
    /\ \A e \in staged.tree : e[2] # "prior"

\* staged twice from dist: index.mjs from dist, README.md from the project
C26_Witness ==
  /\ pc = "staged"
  /\ Len(SelectSeq(log, LAMBDA e : e = "emptyDir")) = 2
  /\ <<<<"index.mjs">>, "src">> \in staged.tree
  /\ <<<<"README.md">>, "root">> \in staged.tree
  /\ staged.pkg.version = <<"1", ".", "2", ".", "4">>

\* what the spec has the root copy leave out: what lies in a node_modules
\* directory, .git* entries, .DS_Store files, what lies in coverage or .nyc_output
LeftOut(f) ==
  LET segs == Split(f, <<"/">>)
  IN \/ \E i \in 1..(Len(segs) - 1) : segs[i] \in { <<"node_modules">>, <<"coverage">>,
                                                     <<".nyc_output">> }
     \/ \E i \in 1..Len(segs) : IsPrefix(<<".git">>, segs[i])
     \/ segs[Len(segs)] = <<".DS_Store">>

\* C27: staged from the project root, the staging directory holds a file of
\* the project exactly when it is not left out, and the staged manifest has the
\* exports as read.
C27_RootFilter ==
  (pc = "staged" /\ argv.root) =>
    /\ \A f \in ProjectFiles : (\E e \in staged.tree : e[1] = f) <=> ~LeftOut(f)
    /\ staged.pkg.exports = originalPkg.exports

\* C28: the publish command names the registry https://registry.npmjs.org,
\* carries --access=public exactly when --public was given, --tag=<kind>
\* exactly when the kind is none of major, minor and patch, and --otp=<code>
\* exactly when a code was captured.
C28_PublishCommand ==
  failed = "publish" =>
    LET type == releaseType(argv.kind) IN
    /\ Includes(err, <<"--registry=https://registry.npmjs.org">>)
    /\ Includes(err, <<"--access=public">>) <=> argv.public
    /\ Includes(err, <<"--tag=">>) <=> type \notin {"major", "minor", "patch"}
    /\ Includes(err, <<"--tag=">>) => Includes(err, <<"--tag=">> \o Chars(type))
    /\ Includes(err, <<"--otp=">>) <=> otpCode # <<>>
    /\ Includes(err, <<"--otp=">>) => Includes(err, <<"--otp=">> \o otpCode)

\* C29: the version is bumped by kind major when --major is given, else minor
\* when --minor is, else patch when --patch is, else by the --type value when
\* there is one, whatever it names, else by patch.
C29_KindPrecedence ==
  pc = "bumped" =>
    LET k == argv.kind
        v == pkg.version
    IN /\ k.major => newVersion = versionBump(v, "major")
       /\ (~k.major /\ k.minor) => newVersion = versionBump(v, "minor")
       /\ (~k.major /\ ~k.minor /\ k.patch) => newVersion = versionBump(v, "patch")
       /\ (~k.major /\ ~k.minor /\ ~k.patch /\ k.type # "") =>
            newVersion = versionBump(v, k.type)
       /\ (~k.major /\ ~k.minor /\ ~k.patch /\ k.type = "") =>
            newVersion = versionBump(v, "patch")

\* --patch --type=major on 1.2.3 gives 1.2.4
C29_Witness ==
  /\ pc = "bumped"
  /\ argv.kind = [major |-> FALSE, minor |-> FALSE, patch |-> TRUE, type |-> "major"]
  /\ pkg.version = V123
  /\ newVersion = <<"1", ".", "2", ".", "4">>

\* C30: with --no-git or --dry-run no git command runs; a successful run with
\* git enabled has run add and commit exactly when --tag or --push was given,
\* the tag exactly with --tag, the push exactly with --push and the push of
\* tags exactly with both; and the tag command names v<next> and carries the
\* message of the commit.
C30_GitSteps ==
  /\ (flags.noGit \/ flags.dryRun) => \A e \in GitEvents : ~Seen(e)
  /\ (Seen("success") /\ ~flags.noGit /\ ~flags.dryRun) =>
       /\ (Seen("gitAdd") /\ Seen("gitCommit")) <=> (flags.tag \/ flags.push)
       /\ (Seen("gitAdd") \/ Seen("gitCommit")) => (flags.tag \/ flags.push)
       /\ Seen("gitTag") <=> flags.tag
       /\ Seen("gitPush") <=> flags.push
       /\ Seen("gitPushTags") <=> (flags.push /\ flags.tag)
  /\ failed = "gitTag" =>
       \E message \in { commitMessage, DefaultMessage(newVersion) } :
         /\ message # <<>>
         /\ err = ErrCommand(<<"git tag -a v">> \o newVersion \o <<" -m ", "\"">> \o message
                               \o <<"\"">>)

\* what a POSIX shell makes of `s"`, read from inside a double-quoted word: a
\* backslash takes the next character with it, so the word is "closed" by the
\* quote that follows s, "broken" by an unescaped quote inside s, and "open"
\* when a backslash at the end of s takes the closing quote
RECURSIVE QuotedWord(_)
QuotedWord(s) ==
  IF s = <<>> THEN "closed"
  ELSE IF s[1] = "\"" THEN "broken"
  ELSE IF s[1] = "\\" THEN (IF Len(s) = 1 THEN "open" ELSE QuotedWord(SubSeq(s, 3, Len(s))))
  ELSE QuotedWord(Tail(s))

\* C31: the finalized commit message is safe between the double quotes of
\* `git commit -m "<message>"`: the shell reads it as one word that ends at the
\* closing quote, whatever was typed, backslashes included.
C31_QuoteSafe ==
  cs.promise = "resolved" => QuotedWord(commitMessage) = "closed"

\* C31, without backslashes: a typed line that holds no backslash is finalized
\* into a message the shell reads as one word.
C31_QuoteSafeNoBackslash ==
  (cs.promise = "resolved" /\ ~Includes(cs.inputBuffer, <<"\\">>))
    => QuotedWord(commitMessage) = "closed"

\* a line with a quote and no backslash was finalized
C31_Witness ==
  /\ cs.promise = "resolved"
  /\ cs.inputBuffer = <<"a", "\"", "a">>
  /\ commitMessage = <<"released v">> \o newVersion \o <<" - ", "a", "\\", "\"", "a">>

\* the texts that reached the terminal on one channel
Emitted(channel) == { log[i][2] : i \in { j \in 1..Len(log) : log[j][1] = channel } }

\* C32: when a command is run without output streaming, nothing of its output
\* is emitted if it exits with code 0, and what was captured of its stdout and
\* of its stderr is emitted to the error reporter if it exits non-zero.
C32_BufferedOutput ==
  ~argv.verbose =>
    /\ pc = "resolved" => log = <<>>
    /\ pc = "rejected" =>
         \A stream \in {"stdout", "stderr"} :
           reported[stream] # <<>> => reported[stream] \in Emitted("console.error")

\* C32, what holds: a quiet run that exits with code 0 emits nothing, one that
\* exits non-zero emits the captured stderr to the error reporter, and
\* runNpmScript emits the captured stdout as well, on the standard output.
C32_StderrReported ==
  ~argv.verbose =>
    /\ pc = "resolved" => log = <<>>
    /\ pc = "rejected" =>
         /\ reported.stderr # <<>> => reported.stderr \in Emitted("console.error")
         /\ (argv.runner = "runNpmScript" /\ reported.stdout # <<>>)
              => reported.stdout \in Emitted("console.log")

\* a quiet runCommand whose command wrote to both streams and exited non-zero
C32_Witness ==
  /\ ~argv.verbose
  /\ argv.runner = "runCommand"
  /\ pc = "rejected"
  /\ reported = [stdout |-> <<"o">>, stderr |-> <<"e", "e">>]
  /\ log = << <<"console.error", <<"e", "e">>>> >>

\* the step a started command belongs to: 1 lint, 2 test, 3 build, 0 for a
\* line that is no command
StepOf(line) ==
  IF line \in {"npm run lint", "lintCommand"} THEN 1
  ELSE IF line = "npm run test" THEN 2
  ELSE IF line \in {"npm run build", "build"} THEN 3
  ELSE 0

\* C33: the prepare sequence starts the lint, the test and the build command in
\* that order, each at most once; after a step has failed no command of a later
\* step is started, prepare throws, and the error names the failed step.
C33_PrepareOrder ==
  LET started == SelectSeq(log, LAMBDA l : StepOf(l) > 0)
      stepNo == [lint |-> 1, test |-> 2, build |-> 3]
      named == [lint |-> "Lint failed: ", test |-> "Tests failed: ",
                build |-> "Build failed: "]
  IN /\ \A i, j \in 1..Len(started) : i < j => StepOf(started[i]) < StepOf(started[j])
     /\ failed # "none" =>
          /\ pc = "thrown"
          /\ started # <<>>
          /\ StepOf(started[Len(started)]) = stepNo[failed]
          /\ err[1] = named[failed]
     /\ pc = "returned" =>
          /\ failed = "none"
          /\ \E i \in 1..Len(started) : StepOf(started[i]) = 1
          /\ "test" \in argv.scripts => \E i \in 1..Len(started) : StepOf(started[i]) = 2
          /\ ("build" \in argv.scripts \/ argv.srcExists)
               => \E i \in 1..Len(started) : StepOf(started[i]) = 3

\* lint passed, the test script failed, and prepare has thrown without
\* starting the build
C33_Witness ==
  /\ argv.scripts = {"lint", "test", "build"}
  /\ pc = "thrown"
  /\ failed = "test"
  /\ SelectSeq(log, LAMBDA l : StepOf(l) > 0) = <<"npm run lint", "npm run test">>

\* C34: with --no-version a dry-run release skips version bumping: unless the
\* project cannot be read, prepared, staged or cleaned up, it succeeds with exit
\* code 0, and its target version is the current version.
C34_NoVersion ==
  (argv.noVersion /\ flags.dryRun /\ Exited)
    => \/ failed \in {"read", "prepare", "source", "cleanup"}
       \/ /\ exitCode = 0
          /\ Seen("success")
          /\ newVersion = pkg0.version

\* C34, what happens: a release with --no-version on its command line stops at
\* parseArgs, which throws on the option, and exits with code 1 before the
\* manifest is read; no target version is computed.
C34_UnknownOption ==
  (argv.noVersion /\ Exited)
    => /\ exitCode = 1
       /\ failed = "parse"
       /\ newVersion = <<>>
       /\ log = <<>>

\* `itty release --no-version --dry-run --no-git` has exited
C34_Witness ==
  /\ argv.noVersion
  /\ argv.kind = NoKind
  /\ argv.flags = [NoFlags EXCEPT !.dryRun = TRUE, !.noGit = TRUE]
  /\ Exited

\* C35: a failure of git add or git commit is reported as a failure: the
\* rollback runs and the process exits non-zero, whatever the commit message
\* holds; the commit is only treated as cancelled by the user (the manifest
\* restored, exit code 0) when the commit-message session was cancelled.
C35_GitFailureReported ==
  /\ (Exited /\ failed \in {"gitAdd", "gitCommit"}) => (exitCode = 1 /\ Seen("revert"))
  /\ Seen("restore") => cancelled = "commit"

\* C35, for messages without the word: a failure of git add, or of git commit
\* with a message that does not hold `cancelled`, runs the rollback and exits
\* with code 1.
C35_GitFailureOtherText ==
  (Exited /\ failed \in {"gitAdd", "gitCommit"}
     /\ (failed = "gitAdd" \/ ~Includes(commitMessage, Cancelled)))
    => (exitCode = 1 /\ Seen("revert") /\ ~Seen("restore"))

\* git commit failed on a message holding `cancelled`, and the process has exited
C35_Witness ==
  /\ Exited
  /\ failed = "gitCommit"
  /\ Includes(commitMessage, Cancelled)
  /\ cancelled = "none"

\* the registry publish was run and closed with code 0
Published == Seen("publish") /\ failed # "publish"

\* C36: whenever the registry publish has succeeded in an invocation that is no
\* dry run, the persisted manifest's version is the next version when the
\* process terminates, also when the cleanup after the publish fails.
C36_PublishedVersionKept ==
  (Exited /\ ~flags.dryRun /\ Published) => pkg.version = next

\* C36, when the cleanup does not fail: after a successful publish the process
\* terminates with the next version persisted.
C36_KeptUnlessCleanupFails ==
  (Exited /\ ~flags.dryRun /\ Published /\ failed # "cleanup") => pkg.version = next

\* the publish succeeded, the removal of the staging directory failed, and the
\* process has exited
C36_Witness ==
  /\ Exited
  /\ ~flags.dryRun
  /\ Published
  /\ failed = "cleanup"
  /\ exitCode = 1

\* C38: what Prepare wrote to the persisted manifest is not lost: no later step
\* changes the exports of the persisted manifest, and the manifest written to
\* the staging directory carries the exports the persisted manifest has then
\* (as they are, or with the ./dist/ prefix stripped).
C38_PrepareChangeKept ==
  [][ /\ pc # "prepare" => pkg'.exports = pkg.exports
      /\ (staged'.dir = "staged" /\ staged' # staged)
           => staged'.pkg.exports \in { pkg.exports,
                                        Stripped(pkg.exports, <<"d", "i", "s", "t">>) }
    ]_vars

\* Prepare has rewritten the exports of package.json, and the manifest in the
\* staging directory has the exports read before Prepare ran
C38_Witness ==
  /\ Seen("prepare")
  /\ staged.dir = "staged"
  /\ pkg.exports = BuiltExports
  /\ staged.pkg.exports = DeclaredExports

CoreOf(v) == LET d == FirstAt(v, <<"-">>) IN IF d = 0 THEN v ELSE SubSeq(v, 1, d - 1)

\* C40: for every well-formed current version, with or without a pre-release
\* segment -<tag>.<n>, and every kind in major, minor, patch, versionBump returns
\* a well-formed version whose triple is the current triple correctly
\* incremented; no component of the result is anything but a number.
C40_BumpWellFormed ==
  (pc = "bumped" /\ WellFormed(pkg.version)
     /\ releaseType(argv.kind) \in {"major", "minor", "patch"}) =>
    LET p == PartsOf(CoreOf(pkg.version))
        type == releaseType(argv.kind)
    IN /\ WellFormed(newVersion)
       /\ CoreOf(newVersion) = IF type = "patch" THEN Triple(p[1], p[2], p[3] + 1)
                               ELSE IF type = "minor" THEN Triple(p[1], p[2] + 1, 0)
                               ELSE Triple(p[1] + 1, 0, 0)

\* C40, for the kinds major and minor: on every well-formed current version the
\* result is the plain triple (a+1).0.0 or a.(b+1).0.
C40_MajorMinorWellFormed ==
  (pc = "bumped" /\ WellFormed(pkg.version)
     /\ releaseType(argv.kind) \in {"major", "minor"}) =>
    LET p == PartsOf(CoreOf(pkg.version))
    IN newVersion = IF releaseType(argv.kind) = "minor" THEN Triple(p[1], p[2] + 1, 0)
                    ELSE Triple(p[1] + 1, 0, 0)

\* 1.2.3-beta.0 bumped with kind patch is 1.2.NaN
C40_Witness ==
  /\ pc = "bumped"
  /\ pkg.version = V123beta0
  /\ releaseType(argv.kind) = "patch"
  /\ newVersion = <<"1", ".", "2", ".", "N", "a", "N">>

\* the files the project had before staging: everything in the tree but what
\* an earlier run left in the default staging directories
Before == { <<f, "original">> : f \in ProjectFiles \cup { <<"lib", "/", "index.js">> } }

\* C37: staging deletes and modifies nothing outside the staging directory,
\* for every combination of --src, --root and --dest, a staging directory
\* equal to or containing the source directory or the project root included:
\* every file of the source tree, and every file of the project outside the
\* staging directory, is there unchanged at every step, and no file is created
\* outside the staging directory.
C37_StagingContained ==
  LET Below(dir, f) == IF dir = <<>> THEN f[1] # ".." ELSE IsPrefix(dir \o <<"/">>, f)
  IN /\ \A e \in Before :
          (Below(staged.src, e[1]) \/ ~Below(staged.dir, e[1])) => e \in staged.tree
     /\ \A e \in staged.tree : e[2] # "original" => Below(staged.dir, e[1])

\* C37, for a staging directory apart from the project's files: when no file of
\* the project lies in the staging directory, staging leaves every file of the
\* project as it was and creates files in the staging directory only.
C37_ContainedWhenApart ==
  LET Below(dir, f) == IF dir = <<>> THEN f[1] # ".." ELSE IsPrefix(dir \o <<"/">>, f)
  IN (\A e \in Before : ~Below(staged.dir, e[1])) =>
       /\ Before \subseteq staged.tree
       /\ \A e \in staged.tree : e[2] # "original" => Below(staged.dir, e[1])

\* --src=dist --dest=dist: the staging directory was emptied and the source
\* files are gone
C37_Witness ==
  /\ staged.src = <<"dist">>
  /\ staged.dir = <<"dist">>
  /\ Seen("emptyDir")
  /\ <<<<"dist", "/", "index.mjs">>, "original">> \notin staged.tree

\* the default --dest=.dist: staging has completed next to an untouched project
C37_ApartWitness ==
  /\ staged.src = <<"dist">>
  /\ staged.dir = <<".dist">>
  /\ pc = "staged"
  /\ <<<<".dist", "/", "index.mjs">>, "copied">> \in staged.tree
  /\ <<<<".dist", "/", "package.json">>, "manifest">> \in staged.tree
  /\ Before \subseteq staged.tree

====
